---- MODULE Spec2Model ----
(***************************************************************************)
(* State-machine model of the maintenance scheduling logic of the asset    *)
(* management application (src/app.py, src/models.py, src/config.py).      *)
(*                                                                         *)
(* The database holds the Asset and MaintenanceRecord tables.  A home-page *)
(* view (index) is a multi-step request: it lists the assets, iterates     *)
(* over them (each iteration issues a query, which autoflushes the row     *)
(* staged by the previous iteration), commits once, and then renders the   *)
(* due list.  All other handlers issue one commit and are single steps.    *)
(* Dates are day numbers.                                                  *)
(***************************************************************************)
EXTENDS Integers, FiniteSets, Sequences, TLC

\* ------------------------------------------------------------------ bounds
MaxAssets == 2      \* asset ids are 1..MaxAssets
MaxId     == 3      \* maintenance record ids are 1..MaxId
MaxToday  == 2      \* the clock runs over days 1..MaxToday
NumReqs   == 2      \* request slots (clients) that may be in flight
MaxOverdue == 12    \* overdue records of a populated table
MaxDueSoon == 11    \* records of a populated table that are due within 30 days
MaxCostRows == 7    \* records of the current year in a populated table
MaxTypes  == 1      \* asset type ids are 1..MaxTypes
MaxUsers  == 3      \* user ids are 1..MaxUsers
MaxCalls  == 3      \* calls of /dev/bootstrap that are counted

\* ------------------------------------------------------- program constants
NULL       == 0 - 1     \* SQL NULL / Python None in a date or id column
YearDays_Leap == 365 + 1   \* a generator that schedules one day more
YearDays   == 365       \* timedelta(days=365)
DueWindow  == 30        \* timedelta(days=30)
DueLimit   == 10        \* .limit(10)

\* ------------------------------------------------------------- calendar
\* datetime.date: a date is its proleptic Gregorian ordinal (0001-01-01 is
\* day 1), so that date + timedelta(days=n) is integer addition
IsLeapYear(y) == y % 4 = 0 /\ (y % 100 # 0 \/ y % 400 = 0)

DaysInMonth(y, m) ==
    IF m = 2 THEN (IF IsLeapYear(y) THEN 29 ELSE 28)
    ELSE IF m \in {4, 6, 9, 11} THEN 30
    ELSE 31

\* days before January 1st of year y
DaysBeforeYear(y) ==
    (y - 1) * 365 + ((y - 1) \div 4) - ((y - 1) \div 100) + ((y - 1) \div 400)

\* days of year y before the first day of month m
DaysBeforeMonth(y, m) ==
    <<0, 31, 59, 90, 120, 151, 181, 212, 243, 273, 304, 334>>[m]
        + (IF m > 2 /\ IsLeapYear(y) THEN 1 ELSE 0)

\* date(y, m, d)
ToOrdinal(y, m, d) == DaysBeforeYear(y) + DaysBeforeMonth(y, m) + d

\* date.year
YearOf(n) ==
    CHOOSE y \in (n \div 366)..((n \div 365) + 1) :
        y >= 1 /\ DaysBeforeYear(y) < n /\ n <= DaysBeforeYear(y + 1)

\* date.month
MonthOf(n) ==
    LET y == YearOf(n)
        k == n - DaysBeforeYear(y)
    IN CHOOSE m \in 1..12 :
           /\ DaysBeforeMonth(y, m) < k
           /\ k <= DaysBeforeMonth(y, m) + DaysInMonth(y, m)

\* date.day
DayOf(n) == n - DaysBeforeYear(YearOf(n)) - DaysBeforeMonth(YearOf(n), MonthOf(n))

\* the date as (year, month, day)
DateOf(n) == <<YearOf(n), MonthOf(n), DayOf(n)>>

AssetIds == 1..MaxAssets
TypeIds  == 1..MaxTypes
RecIds   == 1..MaxId
Reqs     == 1..NumReqs
Dialects == {"sqlite", "postgresql"}
\* dates a form can carry: the clock's days
FormDates == 1..MaxToday

VARIABLES
    dialect,     \* backend selected by SQLALCHEMY_DATABASE_URI
    today,       \* datetime.utcnow().date()
    assets,      \* Asset table: set of rows
    records,     \* MaintenanceRecord table: committed rows
    assetSeq,    \* postgresql sequence asset_id_seq
    recSeq,      \* postgresql sequence maintenance_record_id_seq
    session,     \* session[c]: 'user_id' in the client's session cookie
    pc,          \* pc[r]: position of the index request of slot r
    reqToday,    \* reqToday[r]: local variable today of the request
    todo,        \* todo[r]: assets of the for loop not yet visited
    listed,      \* listed[r]: ids returned by Asset.query.all()
    pending,     \* pending[r]: rows added to the session, not yet flushed
    flushed,     \* flushed[r]: rows INSERTed in the open transaction
    commitOk,    \* commitOk[r]: the final commit did not raise
    made,        \* made[r]: the rec objects built by the request so far
    startStore,  \* startStore[r]: MaintenanceRecord table when r's view began
    lastView,    \* the most recently completed request: which view it was
    roles,       \* Role table: the names (name is unique)
    users,       \* User table: set of rows
    userSeq,     \* postgresql sequence user_id_seq
    assetTypes,  \* AssetType table: set of rows
    typeSeq,     \* postgresql sequence asset_type_id_seq
    initToken    \* app.config['INIT_TOKEN']

vars == <<dialect, today, assets, records, assetSeq, recSeq, session, pc,
          reqToday, todo, listed, pending, flushed, commitOk, made,
          startStore, lastView, roles, users, userSeq, assetTypes, typeSeq,
          initToken>>

\* the tables and the configuration of user and asset-type administration
adminVars == <<roles, users, userSeq, assetTypes, typeSeq, initToken>>

reqVars == <<pc, reqToday, todo, listed, pending, flushed, commitOk,
             made, startStore>>

\* ------------------------------------------------------------------ helpers
SetMax(S) == CHOOSE x \in S : \A y \in S : y <= x

RECURSIVE SortedIds(_)
\* a finite set of integers as an ascending sequence
SortedIds(S) ==
    IF S = {} THEN <<>>
    ELSE LET m == CHOOSE x \in S : \A y \in S : x <= y
         IN <<m>> \o SortedIds(S \ {m})

\* AssetType(...) row
TypeRow(id) == [id |-> id, deleted_at |-> NULL]

\* Asset(...) row, of the first asset type
AssetRow(id, status) ==
    [id |-> id, status |-> status, asset_type_id |-> 1, deleted_at |-> NULL]

\* Role(...) rows created at start-up and by /dev/bootstrap
BaseRoles == {"admin", "manager", "user"}

\* Config.ADMIN_USERNAME, ADMIN_EMAIL, ADMIN_PASSWORD
AdminUsername == "admin"
AdminEmail    == "admin@example.com"
AdminPassword == "admin123"

\* User(...) row; password stands for the hash of it
UserRow(id, username, email, password, is_active) ==
    [id |-> id, username |-> username, email |-> email,
     password |-> password, is_active |-> is_active, deleted_at |-> NULL]

AssetIdsOf(tbl) == {a.id : a \in tbl}

\* a listing that keeps the active assets that are not in the trash
ListedAssets_ActiveOnly(tbl) ==
    {a.id : a \in {b \in tbl : b.status = "active" /\ b.deleted_at = NULL}}

\* assets = Asset.query.all(): the ids the for loop of index() visits
ListedAssets(tbl) == AssetIdsOf(tbl)

\* a generator that leaves status to the column default
AutoRecord_DefaultStatus(asset_id, day) ==
    [id |-> 0, asset_id |-> asset_id, maintenance_date |-> day,
     type |-> "maintenance", vendor |-> "None",
     person_in_charge |-> "System", cost |-> 0,
     next_due_date |-> day + YearDays, status |-> "completed",
     deleted_at |-> NULL]

\* MaintenanceRecord(...) built by the generator; id is assigned at flush.
\* vendor=None is written "None" (form values are strings, "" when empty)
AutoRecord(asset_id, day) ==
    [id |-> 0, asset_id |-> asset_id, maintenance_date |-> day,
     type |-> "maintenance", vendor |-> "None",
     person_in_charge |-> "System", cost |-> 0,
     next_due_date |-> day + YearDays, status |-> "scheduled",
     deleted_at |-> NULL]

\* MaintenanceRecord(...) built from the add form
FormRecord(asset_id, mdate, cost, due, status) ==
    [id |-> 0, asset_id |-> asset_id, maintenance_date |-> mdate,
     type |-> "repair", vendor |-> "", person_in_charge |-> "Tech",
     cost |-> cost, next_due_date |-> due, status |-> status,
     deleted_at |-> NULL]

\* rows of one asset
RowsOf(tbl, asset_id) == {x \in tbl : x.asset_id = asset_id}

\* ORDER BY next_due_date DESC ... first(): the rows that may come first.
\* sqlite sorts NULL below every value (last in DESC), postgresql above
\* every value (first in DESC); ties are broken arbitrarily.
LastCandidates(rows, d) ==
    LET nulls == {x \in rows : x.next_due_date = NULL}
        dated == rows \ nulls
        top   == {x \in dated : \A y \in dated :
                                   y.next_due_date <= x.next_due_date}
    IN IF d = "postgresql"
       THEN IF nulls # {} THEN nulls ELSE top
       ELSE IF dated # {} THEN top ELSE nulls

\* next_due as computed from `last`
NextDueFrom(rows, d) ==
    IF LastCandidates(rows, d) = {} THEN NULL
    ELSE (CHOOSE x \in LastCandidates(rows, d) : TRUE).next_due_date

\* need_create that forgets the elif branch: an expired schedule is kept
NeedCreate_NoExpiry(next_due, day) ==
    IF next_due = NULL THEN TRUE ELSE FALSE

\* need_create
NeedCreate(next_due, day) ==
    IF next_due = NULL THEN TRUE
    ELSE IF next_due < day THEN TRUE
    ELSE FALSE

\* a loop that stops one asset early
LoopDone_OffByOne(t) == Len(t) <= 1

\* the for loop is over once every listed asset has been visited
LoopDone(t) == t = <<>>

\* primary key given to a new MaintenanceRecord row: sqlite takes
\* max(rowid)+1 over the rows the writer sees, postgresql the sequence
NewRecId(visible, seq, d) ==
    IF d = "sqlite"
    THEN (IF visible = {} THEN 1 ELSE SetMax({x.id : x \in visible}) + 1)
    ELSE seq + 1

\* primary key given to a new AssetType row
NewTypeId(tbl, seq, d) ==
    IF d = "sqlite"
    THEN (IF tbl = {} THEN 1 ELSE SetMax({y.id : y \in tbl}) + 1)
    ELSE seq + 1

\* asset.asset_type_id references asset_type.id: postgresql checks the
\* foreign key when the row is written, sqlite does not (PRAGMA
\* foreign_keys is never switched on)
TypeKeyAllowed(type_id, types, d) ==
    d = "postgresql" => \E y \in types : y.id = type_id

NewAssetId(tbl, seq, d) ==
    IF d = "sqlite"
    THEN (IF tbl = {} THEN 1 ELSE SetMax(AssetIdsOf(tbl)) + 1)
    ELSE seq + 1

\* sqlite admits one writing transaction at a time: a request that has
\* flushed rows holds the write lock until it commits or rolls back
CanWrite(r) ==
    dialect = "sqlite" => \A q \in Reqs \ {r} : flushed[q] = {}

NoWriter == dialect = "sqlite" => \A q \in Reqs : flushed[q] = {}

\* a backend with a uniqueness constraint on (asset_id, next_due_date) of
\* scheduled rows
InsertAllowed_Unique(row, recs, assetTbl, d) ==
    /\ d = "postgresql" => row.asset_id \in {a.id : a \in assetTbl}
    /\ ~\E y \in recs : /\ y.asset_id = row.asset_id
                        /\ y.status = "scheduled" /\ row.status = "scheduled"
                        /\ y.next_due_date = row.next_due_date

\* constraints the backend checks on INSERT/UPDATE of a maintenance row:
\* postgresql enforces the foreign key asset_id -> asset.id, sqlite does
\* not (PRAGMA foreign_keys is never switched on)
InsertAllowed(row, recs, assetTbl, d) ==
    d = "postgresql" => row.asset_id \in AssetIdsOf(assetTbl)

\* a flush that commits each row as it is inserted
TableAfterFlush_Autocommit(recs, rows) == recs \cup rows

\* what the committed table holds after a flush (an INSERT inside the
\* still open transaction): nothing new
TableAfterFlush(recs, rows) == recs

\* what the committed table holds after commit
TableAfterCommit(recs, rows) == recs \cup rows

\* a rollback on one session shared by all requests
RolledBack_Global(staged, r) == [q \in DOMAIN staged |-> {}]

\* session state after db.session.rollback() / teardown of request r:
\* the session is scoped to the request
RolledBack(staged, r) == [staged EXCEPT ![r] = {}]

RECURSIVE SortByDue(_)
SortByDue(S) ==
    IF S = {} THEN <<>>
    ELSE LET m == CHOOSE x \in S : \A y \in S :
                    \/ x.next_due_date < y.next_due_date
                    \/ (x.next_due_date = y.next_due_date /\ x.id <= y.id)
         IN <<m>> \o SortByDue(S \ {m})

\* the due query without .limit(10)
DueRecords_Unlimited(recs, day) ==
    SortByDue({y \in recs : y.next_due_date # NULL
                            /\ y.next_due_date <= day + DueWindow})

\* a due query that keeps the 10 latest of the qualifying records
DueRecords_Latest(recs, day) ==
    LET q == SortByDue({y \in recs : y.next_due_date # NULL
                                     /\ y.next_due_date <= day + DueWindow})
    IN SubSeq(q, IF Len(q) < DueLimit THEN 1 ELSE Len(q) - DueLimit + 1,
              Len(q))

\* the due query of the home page: filter, order_by asc, limit
DueRecords(recs, day) ==
    LET q == SortByDue({y \in recs : y.next_due_date # NULL
                                     /\ y.next_due_date <= day + DueWindow})
    IN SubSeq(q, 1, IF Len(q) < DueLimit THEN Len(q) ELSE DueLimit)

\* flash(...) chosen by the home page: the category
FlashOf(overdue, due_soon) ==
    IF overdue > 0 THEN "warning"
    ELSE IF due_soon > 0 THEN "info"
    ELSE "none"

\* an `if` where the code has `elif`
Flashes_NoElif(overdue, due_soon) ==
    (IF overdue > 0
     THEN {[category |-> "warning", count |-> overdue]} ELSE {})
    \cup (IF due_soon > 0
          THEN {[category |-> "info", count |-> due_soon]} ELSE {})

\* the messages flashed by the home page, each with the count it carries
Flashes(overdue, due_soon) ==
    IF overdue > 0 THEN {[category |-> "warning", count |-> overdue]}
    ELSE IF due_soon > 0 THEN {[category |-> "info", count |-> due_soon]}
    ELSE {}

\* nothing rendered from the maintenance tables
NoPage == [none |-> TRUE]

NoView == [kind |-> "other", day |-> 0, before |-> {}, page |-> NoPage]

\* --------------------------------------------------------------------- Init
\* run.py: create_all, then the start-up bootstrap: the base roles and the
\* admin account; no asset type yet.  INIT_TOKEN is left at its default
AdminInit ==
    /\ roles = BaseRoles
    /\ users = {UserRow(1, AdminUsername, AdminEmail, AdminPassword, TRUE)}
    /\ userSeq = IF dialect = "postgresql" THEN 1 ELSE 0
    /\ assetTypes = {}
    /\ typeSeq = 0
    /\ initToken = ""

\* the same with the first asset type entered (the asset form offers the
\* stored asset types)
AdminSeeded ==
    /\ roles = BaseRoles
    /\ users = {UserRow(1, AdminUsername, AdminEmail, AdminPassword, TRUE)}
    /\ userSeq = IF dialect = "postgresql" THEN 1 ELSE 0
    /\ assetTypes = {TypeRow(1)}
    /\ typeSeq = IF dialect = "postgresql" THEN 1 ELSE 0
    /\ initToken = ""

Init ==
    /\ dialect \in Dialects
    /\ today = 1
    /\ assets = {}
    /\ records = {}
    /\ assetSeq = 0
    /\ recSeq = 0
    /\ session = [c \in Reqs |-> FALSE]
    /\ pc = [r \in Reqs |-> "idle"]
    /\ reqToday = [r \in Reqs |-> 0]
    /\ todo = [r \in Reqs |-> <<>>]
    /\ listed = [r \in Reqs |-> {}]
    /\ pending = [r \in Reqs |-> {}]
    /\ flushed = [r \in Reqs |-> {}]
    /\ commitOk = [r \in Reqs |-> FALSE]
    /\ made = [r \in Reqs |-> {}]
    /\ startStore = [r \in Reqs |-> {}]
    /\ lastView = NoView
    /\ AdminSeeded

\* the application as run.py leaves it, no asset type entered yet
InitFresh ==
    /\ dialect \in Dialects
    /\ today = 1
    /\ assets = {}
    /\ records = {}
    /\ assetSeq = 0
    /\ recSeq = 0
    /\ session = [c \in Reqs |-> FALSE]
    /\ pc = [r \in Reqs |-> "idle"]
    /\ reqToday = [r \in Reqs |-> 0]
    /\ todo = [r \in Reqs |-> <<>>]
    /\ listed = [r \in Reqs |-> {}]
    /\ pending = [r \in Reqs |-> {}]
    /\ flushed = [r \in Reqs |-> {}]
    /\ commitOk = [r \in Reqs |-> FALSE]
    /\ made = [r \in Reqs |-> {}]
    /\ startStore = [r \in Reqs |-> {}]
    /\ lastView = NoView
    /\ AdminInit

\* ---------------------------------------------------------- /dev/bootstrap
\* primary key given to a new User row
NewUserId(tbl, seq, d) ==
    IF d = "sqlite"
    THEN (IF tbl = {} THEN 1 ELSE SetMax({u.id : u \in tbl}) + 1)
    ELSE seq + 1

\* username and email are unique columns: the INSERT of a row that repeats
\* one of them raises IntegrityError
UserInsertAllowed(row, tbl) ==
    \A u \in tbl : u.username # row.username /\ u.email # row.email

\* if token_cfg and token_req != token_cfg
Unauthorized(token_cfg, token_req) ==
    token_cfg # "" /\ token_req # token_cfg

\* Role.query.count() == 0
RolesMissing(roleTbl) == roleTbl = {}

\* a bootstrap that does not look for the admin account
AdminMissing_Always(userTbl) == TRUE

\* User.query.filter_by(username=admin_username).first() is None
AdminMissing(userTbl) == ~\E u \in userTbl : u.username = AdminUsername

\* the Role table after the two role steps of dev_bootstrap(): the base
\* roles when the table is empty, then the admin role when the admin
\* account is to be created and no role is named admin (each committed on
\* its own)
RolesAfterBootstrap(roleTbl, userTbl) ==
    LET r1 == IF RolesMissing(roleTbl) THEN BaseRoles ELSE roleTbl
    IN IF AdminMissing(userTbl) THEN r1 \cup {"admin"} ELSE r1

\* the answer of dev_bootstrap() and the tables it leaves
BootstrapResult(roleTbl, userTbl, seq, d, token_cfg, token_req) ==
    LET u == UserRow(NewUserId(userTbl, seq, d), AdminUsername, AdminEmail,
                     AdminPassword, TRUE)
        created_roles == IF RolesMissing(roleTbl) THEN 3 ELSE 0
    IN IF Unauthorized(token_cfg, token_req)
       THEN [status |-> 401, created_roles |-> 0, created_users |-> 0,
             roles |-> roleTbl, users |-> userTbl, seq |-> seq]
       ELSE IF ~AdminMissing(userTbl)
       THEN [status |-> 200, created_roles |-> created_roles,
             created_users |-> 0,
             roles |-> RolesAfterBootstrap(roleTbl, userTbl),
             users |-> userTbl, seq |-> seq]
       ELSE IF UserInsertAllowed(u, userTbl)
       THEN [status |-> 200, created_roles |-> created_roles,
             created_users |-> 1,
             roles |-> RolesAfterBootstrap(roleTbl, userTbl),
             users |-> userTbl \cup {u},
             seq |-> IF d = "postgresql" THEN seq + 1 ELSE seq]
       ELSE [status |-> 500, created_roles |-> 0, created_users |-> 0,
             roles |-> RolesAfterBootstrap(roleTbl, userTbl),
             users |-> userTbl,
             seq |-> IF d = "postgresql" THEN seq + 1 ELSE seq]

\* dev_bootstrap(): GET /dev/bootstrap?token=token_req.  The view keeps
\* the answer, the number of calls that passed the token check so far and
\* whether the first of them found the database empty
DevBootstrap(token_req) ==
    LET res  == BootstrapResult(roles, users, userSeq, dialect, initToken,
                                token_req)
        prev == IF lastView.kind = "bootstrap"
                THEN lastView.page
                ELSE [nth |-> 0, fromEmpty |-> FALSE]
        pass == res.status # 401
    IN /\ \A r \in Reqs : pc[r] = "idle"
       /\ res.seq <= MaxUsers
       /\ roles' = res.roles
       /\ users' = res.users
       /\ userSeq' = res.seq
       /\ lastView' =
             [kind |-> "bootstrap", day |-> today, before |-> {},
              page |-> [none |-> FALSE, status |-> res.status,
                        created_roles |-> res.created_roles,
                        created_users |-> res.created_users,
                        nth |-> IF pass /\ prev.nth < MaxCalls
                                THEN prev.nth + 1 ELSE prev.nth,
                        fromEmpty |->
                            IF pass /\ prev.nth = 0
                            THEN roles = {} /\ users = {}
                            ELSE prev.fromEmpty]]
       /\ UNCHANGED <<dialect, today, assets, records, assetSeq, recSeq,
                      session, assetTypes, typeSeq, initToken>>
       /\ UNCHANGED reqVars

\* ------------------------------------------------------- session handling
\* a login that does not look at is_active
LoginMatches_IgnoreActive(u, username, password) ==
    u.username = username /\ u.password = password

\* user and user.check_password(password) and user.is_active, for the user
\* found by username
LoginMatches(u, username, password) ==
    u.username = username /\ u.password = password /\ u.is_active

\* login(): POST with any username and password.  A match puts 'user_id'
\* into the client's session (and stamps last_login, which is not
\* modelled); otherwise the error is flashed and the session is left alone
LoginPost(c, username, password) ==
    LET ok == \E u \in users : LoginMatches(u, username, password)
    IN /\ pc[c] = "idle"
       /\ session' = IF ok THEN [session EXCEPT ![c] = TRUE] ELSE session
       /\ lastView' = [kind |-> "login", day |-> today, before |-> {},
                       page |-> [none |-> TRUE, client |-> c, ok |-> ok]]
       /\ UNCHANGED <<dialect, today, assets, records, assetSeq, recSeq>>
       /\ UNCHANGED reqVars
       /\ UNCHANGED adminVars

\* login_required: 'user_id' not in session, redirect to the login page
\* before the wrapped view runs
LoginRequiredRedirect(c) ==
    /\ pc[c] = "idle"
    /\ ~session[c]
    /\ lastView' = [kind |-> "redirect_login", day |-> today, before |-> {},
                    page |-> [none |-> TRUE, client |-> c]]
    /\ UNCHANGED <<dialect, today, assets, records, assetSeq, recSeq,
                   session>>
    /\ UNCHANGED reqVars
    /\ UNCHANGED adminVars

\* edit_user(id): POST that keeps username, email and role and sets
\* is_active from the check box
EditUser(c, id, is_active) ==
    /\ pc[c] = "idle"
    /\ session[c]
    /\ NoWriter
    /\ \E old \in users :
          /\ old.id = id
          /\ old.is_active # is_active
          /\ users' = (users \ {old}) \cup {[old EXCEPT !.is_active = is_active]}
    /\ lastView' = NoView
    /\ UNCHANGED <<dialect, today, assets, records, assetSeq, recSeq,
                   session, roles, userSeq, assetTypes, typeSeq, initToken>>
    /\ UNCHANGED reqVars

\* login(): POST with a matching, active user and the right password
Login(c) ==
    /\ pc[c] = "idle"
    /\ ~session[c]
    /\ \E u \in users : u.is_active
    /\ session' = [session EXCEPT ![c] = TRUE]
    /\ lastView' = NoView
    /\ UNCHANGED <<dialect, today, assets, records, assetSeq, recSeq>>
    /\ UNCHANGED reqVars
    /\ UNCHANGED adminVars

\* logout(): session.clear()
Logout(c) ==
    /\ pc[c] = "idle"
    /\ session[c]
    /\ session' = [session EXCEPT ![c] = FALSE]
    /\ lastView' = NoView
    /\ UNCHANGED <<dialect, today, assets, records, assetSeq, recSeq>>
    /\ UNCHANGED reqVars
    /\ UNCHANGED adminVars

\* ------------------------------------------------- home page: index()
\* 'user_id' not in session: redirect to the login page
IndexRedirect(c) ==
    /\ pc[c] = "idle"
    /\ ~session[c]
    /\ lastView' = NoView
    /\ UNCHANGED <<dialect, today, assets, records, assetSeq, recSeq,
                   session>>
    /\ UNCHANGED reqVars
    /\ UNCHANGED adminVars

\* assets = Asset.query.all(); today = datetime.utcnow().date()
IndexStart(r) ==
    /\ pc[r] = "idle"
    /\ session[r]
    /\ pc' = [pc EXCEPT ![r] = "loop"]
    /\ reqToday' = [reqToday EXCEPT ![r] = today]
    /\ listed' = [listed EXCEPT ![r] = ListedAssets(assets)]
    /\ todo' = [todo EXCEPT ![r] = SortedIds(ListedAssets(assets))]
    /\ pending' = [pending EXCEPT ![r] = {}]
    /\ flushed' = [flushed EXCEPT ![r] = {}]
    /\ made' = [made EXCEPT ![r] = {}]
    /\ commitOk' = [commitOk EXCEPT ![r] = FALSE]
    /\ startStore' = [startStore EXCEPT ![r] = records]
    /\ UNCHANGED <<dialect, today, assets, records, assetSeq, recSeq,
                   session, lastView>>
    /\ UNCHANGED adminVars

\* the rows of `rows` (at most one is ever pending) as INSERTed, with the
\* primary key the backend gives them
WithIds(rows, visible, seq, d) ==
    {[x EXCEPT !.id = NewRecId(visible, seq, d)] : x \in rows}

\* the flush of the pending rows of r can succeed
FlushPossible(r) ==
    pending[r] # {} =>
        /\ CanWrite(r)
        /\ \A x \in pending[r] : InsertAllowed(x, records, assets, dialect)
        /\ NewRecId(records \cup flushed[r], recSeq, dialect) <= MaxId

SeqAfterFlush(r) ==
    IF pending[r] # {} /\ dialect = "postgresql" THEN recSeq + 1 ELSE recSeq

\* one iteration of `for a in assets`: the query autoflushes the row staged
\* by the previous iteration, then need_create is decided and a row staged
IndexIter(r) ==
    /\ pc[r] = "loop"
    /\ ~LoopDone(todo[r])
    /\ FlushPossible(r)
    /\ LET a       == Head(todo[r])
           fresh   == WithIds(pending[r], records \cup flushed[r], recSeq,
                              dialect)
           mine    == flushed[r] \cup fresh
           visible == records \cup mine
           nextDue == NextDueFrom(RowsOf(visible, a), dialect)
           staged  == IF NeedCreate(nextDue, reqToday[r])
                      THEN {AutoRecord(a, reqToday[r])} ELSE {}
       IN /\ flushed' = [flushed EXCEPT ![r] = mine]
          /\ pending' = [pending EXCEPT ![r] = staged]
          /\ made' = [made EXCEPT ![r] = mine \cup staged]
          /\ records' = TableAfterFlush(records, fresh)
    /\ recSeq' = SeqAfterFlush(r)
    /\ todo' = [todo EXCEPT ![r] = Tail(todo[r])]
    /\ UNCHANGED <<dialect, today, assets, assetSeq, session, pc, reqToday,
                   listed, commitOk, startStore, lastView>>
    /\ UNCHANGED adminVars

\* the autoflush inside the query of line 371 raises: the exception leaves
\* index(), the 500 handler answers and the session is removed (rollback)
IndexFlushFail(r) ==
    /\ pc[r] = "loop"
    /\ ~LoopDone(todo[r])
    /\ pending[r] # {}
    /\ pc' = [pc EXCEPT ![r] = "idle"]
    /\ pending' = RolledBack(pending, r)
    /\ flushed' = RolledBack(flushed, r)
    /\ lastView' = NoView
    /\ todo' = [todo EXCEPT ![r] = <<>>]
    /\ reqToday' = [reqToday EXCEPT ![r] = 0]
    /\ listed' = [listed EXCEPT ![r] = {}]
    /\ made' = [made EXCEPT ![r] = {}]
    /\ startStore' = [startStore EXCEPT ![r] = {}]
    /\ UNCHANGED <<dialect, today, assets, records, assetSeq, recSeq,
                   session, commitOk>>
    /\ UNCHANGED adminVars

\* db.session.commit() after the loop succeeds
IndexCommit(r) ==
    /\ pc[r] = "loop"
    /\ LoopDone(todo[r])
    /\ FlushPossible(r)
    /\ LET fresh == WithIds(pending[r], records \cup flushed[r], recSeq,
                            dialect)
           mine  == flushed[r] \cup fresh
       IN /\ records' = TableAfterCommit(records, mine)
          /\ made' = [made EXCEPT ![r] = mine]
    /\ recSeq' = SeqAfterFlush(r)
    /\ pending' = [pending EXCEPT ![r] = {}]
    /\ flushed' = [flushed EXCEPT ![r] = {}]
    /\ commitOk' = [commitOk EXCEPT ![r] = TRUE]
    /\ pc' = [pc EXCEPT ![r] = "render"]
    /\ UNCHANGED <<dialect, today, assets, assetSeq, session, reqToday,
                   todo, listed, startStore, lastView>>
    /\ UNCHANGED adminVars

\* db.session.commit() raises: except Exception: db.session.rollback()
IndexCommitFail(r) ==
    /\ pc[r] = "loop"
    /\ LoopDone(todo[r])
    /\ pending' = RolledBack(pending, r)
    /\ flushed' = RolledBack(flushed, r)
    /\ commitOk' = [commitOk EXCEPT ![r] = FALSE]
    /\ pc' = [pc EXCEPT ![r] = "render"]
    /\ UNCHANGED <<dialect, today, assets, records, assetSeq, recSeq,
                   session, reqToday, todo, listed, made, startStore,
                   lastView>>
    /\ UNCHANGED adminVars

\* r.next_due_date < today
IsOverdue(x, day) == x.next_due_date < day

\* a due-soon test that leaves out the records due today
IsDueSoon_Strict(x, day) == x.next_due_date > day

\* r.next_due_date >= today
IsDueSoon(x, day) == x.next_due_date >= day

\* what index() hands to the template and to flash(), computed from the
\* stored rows
IndexPage(recs, day) ==
    LET due     == DueRecords(recs, day)
        overdue == Cardinality({i \in 1..Len(due) : IsOverdue(due[i], day)})
        soon    == Cardinality({i \in 1..Len(due) : IsDueSoon(due[i], day)})
    IN [due |-> due, overdue |-> overdue, due_soon |-> soon,
        flash |-> FlashOf(overdue, soon),
        flashes |-> Flashes(overdue, soon)]

\* due list, overdue / due_soon counts, flash, render_template; the
\* request ends and its locals are gone
IndexRender(r) ==
    /\ pc[r] = "render"
    /\ pc' = [pc EXCEPT ![r] = "idle"]
    /\ lastView' = [kind |-> IF commitOk[r] THEN "index" ELSE "index_rolledback",
                    day |-> reqToday[r],
                    before |-> IF commitOk[r] THEN startStore[r] ELSE {},
                    page |-> IndexPage(records, reqToday[r])]
    /\ reqToday' = [reqToday EXCEPT ![r] = 0]
    /\ listed' = [listed EXCEPT ![r] = {}]
    /\ made' = [made EXCEPT ![r] = {}]
    /\ commitOk' = [commitOk EXCEPT ![r] = FALSE]
    /\ startStore' = [startStore EXCEPT ![r] = {}]
    /\ UNCHANGED <<dialect, today, assets, records, assetSeq, recSeq,
                   session, todo, pending, flushed>>
    /\ UNCHANGED adminVars

\* ------------------------------------------- maintenance dashboard (read)
\* filter(next_due_date != None, next_due_date < today)
OverdueSet(recs, day) ==
    {x \in recs : x.next_due_date # NULL /\ x.next_due_date < day}

OverdueCount(recs, day) ==
    Cardinality({x \in recs : x.next_due_date # NULL
                              /\ x.next_due_date < day})

\* the first n elements of a query's result: .limit(n)
Limit(q, n) == SubSeq(q, 1, IF Len(q) < n THEN Len(q) ELSE n)

\* a window whose last day is left out
Due30Set_Exclusive(recs, day) ==
    {x \in recs : x.next_due_date # NULL /\ x.next_due_date >= day
                  /\ x.next_due_date < day + DueWindow}

\* filter(next_due_date != None, next_due_date.between(today, today + 30))
Due30Set(recs, day) ==
    {x \in recs : x.next_due_date # NULL /\ x.next_due_date >= day
                  /\ x.next_due_date <= day + DueWindow}

RECURSIVE SumCost(_)
\* db.func.sum(MaintenanceRecord.cost) over a set of rows; `or 0` when empty
SumCost(S) ==
    IF S = {} THEN 0
    ELSE LET x == CHOOSE y \in S : TRUE
         IN x.cost + SumCost(S \ {x})

\* rounding that cuts the fraction off
Round_Truncate(num, den) == num \div den

\* round(num / den): Python rounds to the nearest integer, a half to the
\* even neighbour
Round(num, den) ==
    LET q == num \div den
        r == num % den
    IN IF 2 * r < den THEN q
       ELSE IF 2 * r > den THEN q + 1
       ELSE IF q % 2 = 0 THEN q ELSE q + 1

\* filter(maintenance_date >= date(year, 1, 1),
\*        maintenance_date <= date(year, 12, 31))
YearRecords(recs, year) ==
    LET start_year == ToOrdinal(year, 1, 1)
        end_year   == ToOrdinal(year, 12, 31)
    IN {x \in recs : /\ x.maintenance_date >= start_year
                     /\ x.maintenance_date <= end_year}

\* round(completed / total * 100, 1), in tenths of a percent (429 is 42.9).
\* The float quotient is rounded as the exact one: a tie at the second
\* decimal needs a total that is a multiple of 16
CompletionRate(completed, total) ==
    IF total # 0 THEN Round(completed * 1000, total) ELSE 0

\* round(total_cost_year / total_records_year)
AvgCostPerRecord(total_cost, total) ==
    IF total # 0 THEN Round(total_cost, total) ELSE 0

\* start_month = date(year, month, 1)
StartMonth(day) == ToOrdinal(YearOf(day), MonthOf(day), 1)

\* an end of month taken 30 days after its start
EndMonth_ThirtyDays(day) == StartMonth(day) + 29

\* end_month = start_next_month - timedelta(days=1), where the month after
\* December is January of the next year
EndMonth(day) ==
    LET year  == YearOf(day)
        month == MonthOf(day)
        start_next_month ==
            IF month = 12 THEN ToOrdinal(year + 1, 1, 1)
            ELSE ToOrdinal(year, month + 1, 1)
    IN start_next_month - 1

\* month_records
MonthRecords(recs, day) ==
    LET start_month == StartMonth(day)
        end_month   == EndMonth(day)
    IN {x \in recs : /\ x.maintenance_date >= start_month
                     /\ x.maintenance_date <= end_month}

\* what maintenance_dashboard() hands to the template: the KPIs of the
\* current year and month and the due-date part
DashboardPage(recs, day) ==
    LET year_records       == YearRecords(recs, YearOf(day))
        total_records_year == Cardinality(year_records)
        total_cost_year    == SumCost(year_records)
        completed_year     ==
            Cardinality({x \in year_records : x.status = "completed"})
        month_records      == MonthRecords(recs, day)
    IN [total_records_month |-> Cardinality(month_records),
        total_cost_month |-> SumCost(month_records),
        total_records_year |-> total_records_year,
        total_cost_year |-> total_cost_year,
        completed_year |-> completed_year,
        completion_rate |->
            CompletionRate(completed_year, total_records_year),
        avg_cost_per_record |->
            AvgCostPerRecord(total_cost_year, total_records_year),
        overdue |-> OverdueCount(recs, day),
        overdue_records |->
            Limit(SortByDue(OverdueSet(recs, day)), DueLimit),
        due_30 |-> Cardinality(Due30Set(recs, day)),
        upcoming |-> SortByDue(Due30Set(recs, day))]

\* maintenance_dashboard(): counts and lists computed from the stored rows
MaintenanceDashboard(c) ==
    /\ pc[c] = "idle"
    /\ session[c]
    /\ lastView' = [kind |-> "dashboard", day |-> today, before |-> records,
                    page |-> DashboardPage(records, today)]
    /\ UNCHANGED <<dialect, today, assets, records, assetSeq, recSeq,
                   session>>
    /\ UNCHANGED reqVars
    /\ UNCHANGED adminVars

\* maintenance_dashboard() / maintenance_report(): one of the view's
\* queries raises (the database is unreachable, a table is missing); no
\* try block covers the queries, the exception leaves the view and the
\* 500 handler answers.  view is "dashboard" or "report"
ReportViews == {"dashboard", "report"}

ViewQueryError(c, view) ==
    /\ pc[c] = "idle"
    /\ session[c]
    /\ view \in ReportViews
    /\ lastView' = [kind |-> "error500", day |-> today, before |-> records,
                    page |-> [none |-> FALSE, view |-> view]]
    /\ UNCHANGED <<dialect, today, assets, records, assetSeq, recSeq,
                   session>>
    /\ UNCHANGED reqVars
    /\ UNCHANGED adminVars

\* --------------------------------------------------- maintenance list (read)
ListPerPage == 10       \* paginate(per_page=10)

RECURSIVE SortByDateDesc(_)
\* order_by(maintenance_date.desc())
SortByDateDesc(S) ==
    IF S = {} THEN <<>>
    ELSE LET m == CHOOSE x \in S : \A y \in S :
                    \/ x.maintenance_date > y.maintenance_date
                    \/ (x.maintenance_date = y.maintenance_date /\ x.id <= y.id)
         IN <<m>> \o SortByDateDesc(S \ {m})

\* the query of maintenance_list() with the overdue / due_30 arguments
ListQuery(recs, day, overdue_flag, due30_flag) ==
    LET q1 == IF overdue_flag # 0 THEN OverdueSet(recs, day) ELSE recs
    IN IF due30_flag # 0 THEN Due30Set(q1, day) ELSE q1

\* what maintenance_list() hands to the template: the pagination's total
\* (as the matching rows) and the items of page 1
ListPage(recs, day, overdue_flag, due30_flag) ==
    LET q == ListQuery(recs, day, overdue_flag, due30_flag)
    IN [overdue |-> overdue_flag, due_30 |-> due30_flag,
        matches |-> q,
        items |-> Limit(SortByDateDesc(q), ListPerPage)]

\* maintenance_list(): GET /maintenance?overdue=..&due_30=..
MaintenanceList(c, overdue_flag, due30_flag) ==
    /\ pc[c] = "idle"
    /\ session[c]
    /\ lastView' = [kind |-> "list", day |-> today, before |-> records,
                    page |-> ListPage(records, today, overdue_flag,
                                      due30_flag)]
    /\ UNCHANGED <<dialect, today, assets, records, assetSeq, recSeq,
                   session>>
    /\ UNCHANGED reqVars
    /\ UNCHANGED adminVars

\* ------------------------------------------------- maintenance report (read)
NoYear == 0     \* request.args.get('year', type=int) without a usable value

\* filter(extract('year', maintenance_date) == year)
ReportRecords(recs, year) == {x \in recs : YearOf(x.maintenance_date) = year}

\* a report with a row for each of the twelve months
ReportRows_ZeroFilled(recs, year) ==
    LET rows == ReportRecords(recs, year)
    IN [m \in 1..12 |->
           [month |-> m,
            total |-> SumCost({x \in rows :
                                  MonthOf(x.maintenance_date) = m})]]

\* group_by('month').order_by('month'): one row for each month that has
\* records, with the sum of their cost
ReportRows(recs, year) ==
    LET rows   == ReportRecords(recs, year)
        months == SortedIds({MonthOf(x.maintenance_date) : x \in rows})
    IN [i \in 1..Len(months) |->
           [month |-> months[i],
            total |-> SumCost({x \in rows :
                                  MonthOf(x.maintenance_date) = months[i]})]]

RECURSIVE SumTotals(_)
\* sum(d['total'] for d in data)
SumTotals(data) ==
    IF data = <<>> THEN 0 ELSE Head(data).total + SumTotals(Tail(data))

\* what maintenance_report() hands to the template
ReportPage(recs, year_arg, day) ==
    LET year == IF year_arg = NoYear THEN YearOf(day) ELSE year_arg
        data == ReportRows(recs, year)
    IN [year |-> year, data |-> data, total_year |-> SumTotals(data)]

\* maintenance_report(): GET /maintenance/report?year=..
MaintenanceReport(c, year_arg) ==
    /\ pc[c] = "idle"
    /\ session[c]
    /\ lastView' = [kind |-> "report", day |-> today, before |-> records,
                    page |-> ReportPage(records, year_arg, today)]
    /\ UNCHANGED <<dialect, today, assets, records, assetSeq, recSeq,
                   session>>
    /\ UNCHANGED reqVars
    /\ UNCHANGED adminVars

\* ------------------------------------------------------ maintenance CRUD
FormMDates   == {1}

\* ---- the cost field of the maintenance forms
\* a form field: absent from the POST body, or present with a text (a
\* sequence of characters, possibly empty)
NoField == [given |-> FALSE, text |-> <<>>]
Field(text) == [given |-> TRUE, text |-> text]

DigitChars == <<"0", "1", "2", "3", "4", "5", "6", "7", "8", "9">>

IsDigit(ch) == \E i \in 1..10 : DigitChars[i] = ch

DigitValue(ch) == (CHOOSE i \in 1..10 : DigitChars[i] = ch) - 1

\* the text without its sign
Unsigned(text) ==
    IF text # <<>> /\ Head(text) \in {"-", "+"} THEN Tail(text) ELSE text

\* float(text) does not raise.  Of float's grammar the model has the
\* signed integer literals; the form costs used are of this shape or are
\* not numbers at all
IsNumeric(text) ==
    /\ Unsigned(text) # <<>>
    /\ \A i \in 1..Len(Unsigned(text)) : IsDigit(Unsigned(text)[i])

RECURSIVE DigitsValue(_)
DigitsValue(digits) ==
    IF digits = <<>> THEN 0
    ELSE DigitsValue(SubSeq(digits, 1, Len(digits) - 1)) * 10
             + DigitValue(digits[Len(digits)])

\* float(text) for a numeric text
ParseFloat(text) ==
    IF text # <<>> /\ Head(text) = "-"
    THEN 0 - DigitsValue(Unsigned(text))
    ELSE DigitsValue(Unsigned(text))

\* request.form.get('cost', 0) or 0: the text handed to float(), or 0
\* itself when the field is absent or empty
CostDefaults(field) == ~field.given \/ field.text = <<>>

\* float(request.form.get('cost', 0) or 0) returns
CostAccepted(field) == CostDefaults(field) \/ IsNumeric(field.text)

\* float(request.form.get('cost', 0) or 0)
CostOf(field) ==
    IF CostDefaults(field) THEN 0 ELSE ParseFloat(field.text)

FormCosts    == {Field(<<"5", "0">>)}
\* every kind of cost input: absent, empty, not a number, zero, positive,
\* negative
AllFormCosts ==
    {NoField, Field(<<>>), Field(<<"a", "b", "c">>), Field(<<"0">>),
     Field(<<"5", "0">>), Field(<<"-", "5">>)}
FormStatuses == {"completed"}
AssetStatuses == {"active", "disposed"}

\* maintenance_add(): POST; asset_id is whatever integer the form carries
MaintenanceAdd(c, asset_id, mdate, cost, due, status) ==
    /\ pc[c] = "idle"
    /\ session[c]
    /\ NoWriter
    /\ CostAccepted(cost)
    /\ LET row == FormRecord(asset_id, mdate, CostOf(cost), due, status)
           id  == NewRecId(records, recSeq, dialect)
       IN /\ InsertAllowed(row, records, assets, dialect)
          /\ id <= MaxId
          /\ records' = records \cup {[row EXCEPT !.id = id]}
    /\ recSeq' = IF dialect = "postgresql" THEN recSeq + 1 ELSE recSeq
    /\ lastView' = NoView
    /\ UNCHANGED <<dialect, today, assets, assetSeq, session>>
    /\ UNCHANGED reqVars
    /\ UNCHANGED adminVars

\* maintenance_edit(id): POST; every form field overwrites the row
MaintenanceEdit(c, id, asset_id, mdate, cost, due, status) ==
    /\ pc[c] = "idle"
    /\ session[c]
    /\ NoWriter
    /\ \E old \in records :
          /\ old.id = id
          /\ CostAccepted(cost)
          /\ LET row == [FormRecord(asset_id, mdate, CostOf(cost), due,
                                    status)
                           EXCEPT !.id = id, !.deleted_at = old.deleted_at]
             IN /\ InsertAllowed(row, records, assets, dialect)
                /\ row # old
                /\ records' = (records \ {old}) \cup {row}
    /\ lastView' = NoView
    /\ UNCHANGED <<dialect, today, assets, assetSeq, recSeq, session>>
    /\ UNCHANGED reqVars
    /\ UNCHANGED adminVars

\* maintenance_add() / maintenance_edit(id): float(...) raises ValueError
\* on the cost text; nothing was added or changed yet, the 500 handler
\* answers
MaintenanceFormError(c, id, cost) ==
    /\ pc[c] = "idle"
    /\ session[c]
    /\ id # 0 => \E old \in records : old.id = id
    /\ ~CostAccepted(cost)
    /\ lastView' = [kind |-> "error500", day |-> today, before |-> records,
                    page |-> NoPage]
    /\ UNCHANGED <<dialect, today, assets, records, assetSeq, recSeq,
                   session>>
    /\ UNCHANGED reqVars
    /\ UNCHANGED adminVars

\* a deletion that marks the row (rec.soft_delete()) and keeps it
AfterDelete_Soft(tbl, old) ==
    (tbl \ {old}) \cup {[old EXCEPT !.deleted_at = today]}

\* db.session.delete(obj); db.session.commit()
AfterDelete(tbl, old) == tbl \ {old}

\* maintenance_delete(id): db.session.delete(rec); commit
MaintenanceDelete(c, id) ==
    /\ pc[c] = "idle"
    /\ session[c]
    /\ NoWriter
    /\ \E old \in records :
          /\ old.id = id
          /\ records' = AfterDelete(records, old)
    /\ lastView' = NoView
    /\ UNCHANGED <<dialect, today, assets, assetSeq, recSeq, session>>
    /\ UNCHANGED reqVars
    /\ UNCHANGED adminVars

\* ------------------------------------------------------------ asset CRUD
\* add_asset(): POST with a valid form
AddAsset(c, status) ==
    /\ pc[c] = "idle"
    /\ session[c]
    /\ NoWriter
    /\ LET id == NewAssetId(assets, assetSeq, dialect)
       IN /\ id <= MaxAssets
          /\ \E t \in TypeIds :
                /\ TypeKeyAllowed(t, assetTypes, dialect)
                /\ assets' = assets \cup
                       {[AssetRow(id, status) EXCEPT !.asset_type_id = t]}
    /\ assetSeq' = IF dialect = "postgresql" THEN assetSeq + 1 ELSE assetSeq
    /\ lastView' = NoView
    /\ UNCHANGED <<dialect, today, records, recSeq, session>>
    /\ UNCHANGED reqVars
    /\ UNCHANGED adminVars

\* edit_asset(id): POST with a valid form
EditAsset(c, id, status) ==
    /\ pc[c] = "idle"
    /\ session[c]
    /\ NoWriter
    /\ \E old \in assets, t \in TypeIds :
          LET new == [old EXCEPT !.status = status, !.asset_type_id = t]
          IN /\ old.id = id
             /\ new # old
             /\ TypeKeyAllowed(t, assetTypes, dialect)
             /\ assets' = (assets \ {old}) \cup {new}
    /\ lastView' = NoView
    /\ UNCHANGED <<dialect, today, records, assetSeq, recSeq, session>>
    /\ UNCHANGED reqVars
    /\ UNCHANGED adminVars

\* db.session.delete(asset); commit.  The ORM first sets asset_id of the
\* asset's maintenance rows to NULL; the column is NOT NULL, so the commit
\* raises whenever the asset still has rows and nothing is deleted.
AssetDeletable(id, recs) == RowsOf(recs, id) = {}

\* delete_asset(id)
DeleteAsset(c, id) ==
    /\ pc[c] = "idle"
    /\ session[c]
    /\ NoWriter
    /\ \E old \in assets :
          /\ old.id = id
          /\ AssetDeletable(id, records)
          /\ assets' = assets \ {old}
    /\ lastView' = NoView
    /\ UNCHANGED <<dialect, today, records, assetSeq, recSeq, session>>
    /\ UNCHANGED reqVars
    /\ UNCHANGED adminVars

\* ------------------------------------------------------- asset type CRUD
\* add_asset_type(): POST with a name no asset type has yet
AddAssetType(c) ==
    /\ pc[c] = "idle"
    /\ session[c]
    /\ NoWriter
    /\ LET id == NewTypeId(assetTypes, typeSeq, dialect)
       IN /\ id <= MaxTypes
          /\ assetTypes' = assetTypes \cup {TypeRow(id)}
    /\ typeSeq' = IF dialect = "postgresql" THEN typeSeq + 1 ELSE typeSeq
    /\ lastView' = NoView
    /\ UNCHANGED <<dialect, today, assets, records, assetSeq, recSeq,
                   session, roles, users, userSeq, initToken>>
    /\ UNCHANGED reqVars

\* asset_type.assets: the assets of the type
AssetsOfType(id, assetTbl) == {a \in assetTbl : a.asset_type_id = id}

\* if asset_type.assets
TypeInUse(id, assetTbl) == AssetsOfType(id, assetTbl) # {}

\* the JSON answer of delete_asset_type(id)
TypeDeleteAnswer(id, types, assetTbl) ==
    IF ~\E y \in types : y.id = id THEN "error"
    ELSE IF TypeInUse(id, assetTbl) THEN "in_use"
    ELSE "deleted"

\* delete_asset_type(id): 404 and in-use are answered without a write
DeleteAssetType(c, id) ==
    /\ pc[c] = "idle"
    /\ session[c]
    /\ NoWriter
    /\ assetTypes' =
          IF TypeDeleteAnswer(id, assetTypes, assets) = "deleted"
          THEN {y \in assetTypes : y.id # id}
          ELSE assetTypes
    /\ lastView' = [kind |-> "type_delete", day |-> today, before |-> {},
                    page |-> [none |-> FALSE, id |-> id,
                              answer |->
                                  TypeDeleteAnswer(id, assetTypes, assets),
                              types |-> assetTypes]]
    /\ UNCHANGED <<dialect, today, assets, records, assetSeq, recSeq,
                   session, roles, users, userSeq, typeSeq, initToken>>
    /\ UNCHANGED reqVars

\* ------------------------------------------------------------------ trash
TrashModules == {"asset", "maintenance"}

\* model_map of trash_restore() and trash_permanent_delete()
AllTrashModules == {"asset", "asset_type", "user", "maintenance"}

\* model.query.get(entity_id): the rows of the module's table with the id
TrashTable(module) ==
    CASE module = "asset"       -> assets
      [] module = "asset_type"  -> assetTypes
      [] module = "user"        -> users
      [] module = "maintenance" -> records

TrashFound(module, id) == {x \in TrashTable(module) : x.id = id}

\* the ORM sets the foreign key of the rows that reference the deleted row
\* to NULL first; where that column is NOT NULL the commit raises and
\* nothing is deleted (asset.user_id is nullable and not modelled)
TrashDeletable(module, id) ==
    CASE module = "asset"       -> AssetDeletable(id, records)
      [] module = "asset_type"  -> ~TypeInUse(id, assets)
      [] module = "user"        -> TRUE
      [] module = "maintenance" -> TRUE

\* trash_permanent_delete(): db.session.delete(obj); commit
TrashPermanentDelete(c, module, id) ==
    /\ pc[c] = "idle"
    /\ session[c]
    /\ NoWriter
    /\ \E old \in TrashFound(module, id) :
          /\ TrashDeletable(module, id)
          /\ assets' = IF module = "asset"
                        THEN AfterDelete(assets, old) ELSE assets
          /\ assetTypes' = IF module = "asset_type"
                            THEN AfterDelete(assetTypes, old) ELSE assetTypes
          /\ users' = IF module = "user"
                       THEN AfterDelete(users, old) ELSE users
          /\ records' = IF module = "maintenance"
                         THEN AfterDelete(records, old) ELSE records
    /\ lastView' = NoView
    /\ UNCHANGED <<dialect, today, assetSeq, recSeq, session, roles, userSeq,
                   typeSeq, initToken>>
    /\ UNCHANGED reqVars

\* Asset.restore()
AssetRestored(a) ==
    [a EXCEPT !.deleted_at = NULL,
              !.status = IF a.status = "disposed" THEN "active" ELSE a.status]

\* MaintenanceRecord.restore()
RecordRestored(x) == [x EXCEPT !.deleted_at = NULL]

\* AssetType.restore()
TypeRestored(y) == [y EXCEPT !.deleted_at = NULL]

\* User.restore()
UserRestored(u) == [u EXCEPT !.deleted_at = NULL, !.is_active = TRUE]

\* obj.restore()
Restored(module, x) ==
    CASE module = "asset"       -> AssetRestored(x)
      [] module = "asset_type"  -> TypeRestored(x)
      [] module = "user"        -> UserRestored(x)
      [] module = "maintenance" -> RecordRestored(x)

\* trash_restore(): obj.restore(); commit, for a row the restore changes
TrashRestore(c, module, id) ==
    /\ pc[c] = "idle"
    /\ session[c]
    /\ NoWriter
    /\ \E old \in TrashFound(module, id) :
          LET new == Restored(module, old)
          IN /\ new # old
             /\ assets' = IF module = "asset"
                           THEN (assets \ {old}) \cup {new} ELSE assets
             /\ assetTypes' = IF module = "asset_type"
                               THEN (assetTypes \ {old}) \cup {new}
                               ELSE assetTypes
             /\ users' = IF module = "user"
                          THEN (users \ {old}) \cup {new} ELSE users
             /\ records' = IF module = "maintenance"
                            THEN (records \ {old}) \cup {new} ELSE records
    /\ lastView' = NoView
    /\ UNCHANGED <<dialect, today, assetSeq, recSeq, session, roles, userSeq,
                   typeSeq, initToken>>
    /\ UNCHANGED reqVars

\* trash_restore(): model.query.get(entity_id) finds no row: the "not
\* found" flash, nothing written
TrashRestoreMiss(c, module, id) ==
    /\ pc[c] = "idle"
    /\ session[c]
    /\ TrashFound(module, id) = {}
    /\ lastView' = [kind |-> "restore_notfound", day |-> today,
                    before |-> {},
                    page |-> [none |-> FALSE, module |-> module, id |-> id]]
    /\ UNCHANGED <<dialect, today, assets, records, assetSeq, recSeq,
                   session>>
    /\ UNCHANGED reqVars
    /\ UNCHANGED adminVars

\* deleted_at.isnot(None)
SoftDeleted(tbl) == {x \in tbl : x.deleted_at # NULL}

\* what trash() hands to the template
TrashPage ==
    [none |-> FALSE, assets |-> SoftDeleted(assets),
     asset_types |-> SoftDeleted(assetTypes), users |-> SoftDeleted(users),
     maintenance_records |-> SoftDeleted(records)]

\* trash(): the soft-deleted rows of the four tables
Trash(c) ==
    /\ pc[c] = "idle"
    /\ session[c]
    /\ lastView' = [kind |-> "trash", day |-> today, before |-> {},
                    page |-> TrashPage]
    /\ UNCHANGED <<dialect, today, assets, records, assetSeq, recSeq,
                   session>>
    /\ UNCHANGED reqVars
    /\ UNCHANGED adminVars

\* ------------------------------------------------------------------ clock
\* midnight UTC passes
Tick ==
    /\ today < MaxToday
    /\ today' = today + 1
    /\ UNCHANGED <<dialect, assets, records, assetSeq, recSeq, session,
                   lastView>>
    /\ UNCHANGED reqVars
    /\ UNCHANGED adminVars

\* ------------------------------------------------------------ next states
FormDues == {NULL} \cup FormDates

\* a step of the index request of slot r
IndexStep(r) ==
    \/ IndexStart(r)
    \/ IndexIter(r)
    \/ IndexFlushFail(r)
    \/ IndexCommit(r)
    \/ IndexCommitFail(r)
    \/ IndexRender(r)

\* a single-commit handler called by client c
Handler(c) ==
    \/ Login(c)
    \/ IndexRedirect(c)
    \/ MaintenanceDashboard(c)
    \/ \E a \in AssetIds, m \in FormMDates, k \in FormCosts, d \in FormDues,
          s \in FormStatuses : MaintenanceAdd(c, a, m, k, d, s)
    \/ \E i \in RecIds, a \in AssetIds, m \in FormMDates, k \in FormCosts,
          d \in FormDues, s \in FormStatuses :
             MaintenanceEdit(c, i, a, m, k, d, s)
    \/ \E i \in RecIds : MaintenanceDelete(c, i)
    \/ \E s \in AssetStatuses : AddAsset(c, s)
    \/ \E i \in AssetIds, s \in AssetStatuses : EditAsset(c, i, s)
    \/ \E i \in AssetIds : DeleteAsset(c, i)
    \/ \E m \in TrashModules, i \in RecIds \cup AssetIds :
          TrashPermanentDelete(c, m, i)
    \/ \E m \in TrashModules, i \in RecIds \cup AssetIds :
          TrashRestore(c, m, i)

AllIdle == \A r \in Reqs : pc[r] = "idle"

\* one client, whose requests are served one at a time
Next ==
    \/ IndexStep(1)
    \/ Handler(1)
    \/ AllIdle /\ Tick

Spec == Init /\ [][Next]_vars

\* home-page requests of several clients interleaved (threaded server);
\* clients sign in and assets are registered while no view is in flight
NextConc ==
    \/ \E r \in Reqs : IndexStep(r)
    \/ AllIdle /\ \E c \in Reqs : Login(c)
    \/ AllIdle /\ \E c \in Reqs : AddAsset(c, "active")

SpecConc == Init /\ [][NextConc]_vars

\* ------------------------------------------- the generator on real dates
\* days on which the server may be started: the 10th and the last day of
\* every month of a common year and of a leap year
ClockYears == {2023, 2024}
ClockDays ==
    {ToOrdinal(y, m, 10) : y \in ClockYears, m \in 1..12}
        \cup {ToOrdinal(y, m, DaysInMonth(y, m)) : y \in ClockYears, m \in 1..12}

\* as Init, with the clock at one of ClockDays
InitClock ==
    /\ dialect \in Dialects
    /\ today \in ClockDays
    /\ assets = {}
    /\ records = {}
    /\ assetSeq = 0
    /\ recSeq = 0
    /\ session = [c \in Reqs |-> FALSE]
    /\ pc = [r \in Reqs |-> "idle"]
    /\ reqToday = [r \in Reqs |-> 0]
    /\ todo = [r \in Reqs |-> <<>>]
    /\ listed = [r \in Reqs |-> {}]
    /\ pending = [r \in Reqs |-> {}]
    /\ flushed = [r \in Reqs |-> {}]
    /\ commitOk = [r \in Reqs |-> FALSE]
    /\ made = [r \in Reqs |-> {}]
    /\ startStore = [r \in Reqs |-> {}]
    /\ lastView = NoView
    /\ AdminSeeded

\* sign in, register assets, view the home page
NextClock ==
    \/ Login(1)
    \/ AddAsset(1, "active")
    \/ IndexStep(1)

SpecClock == InitClock /\ [][NextClock]_vars

\* -------------------------------------- the due views on a populated table
DueToday == ToOrdinal(2024, 3, 15)

\* a record of asset 1 entered through the add form some weeks ago
StoredRecord(id, due, day) ==
    [FormRecord(1, day - 40, 50, due, "completed") EXCEPT !.id = id]

\* a table with nSoon records due within the window (among them one due
\* today and one due on the window's last day), nOver overdue records (the
\* later the id, the longer overdue), nFar records due the day after the
\* window and nNull records without a due date
DueTable(nOver, nSoon, nFar, nNull, day) ==
    {StoredRecord(j, day + (((j - 1) * DueWindow) % (DueWindow + 1)), day) :
         j \in 1..nSoon}
    \cup {StoredRecord(nSoon + i, day - i, day) : i \in 1..nOver}
    \cup {StoredRecord(nSoon + nOver + k, day + DueWindow + 1, day) :
              k \in 1..nFar}
    \cup {StoredRecord(nSoon + nOver + nFar + k, NULL, day) : k \in 1..nNull}

\* the application after asset 1 and its records were entered
InitDue ==
    /\ dialect \in Dialects
    /\ today = DueToday
    /\ assets = {AssetRow(1, "active")}
    /\ \E nOver \in 0..MaxOverdue, nSoon \in 0..MaxDueSoon,
          nFar \in 0..1, nNull \in 0..1 :
          /\ records = DueTable(nOver, nSoon, nFar, nNull, DueToday)
          /\ recSeq = IF dialect = "postgresql"
                      THEN nOver + nSoon + nFar + nNull ELSE 0
    /\ assetSeq = IF dialect = "postgresql" THEN 1 ELSE 0
    /\ session = [c \in Reqs |-> c = 1]
    /\ pc = [r \in Reqs |-> "idle"]
    /\ reqToday = [r \in Reqs |-> 0]
    /\ todo = [r \in Reqs |-> <<>>]
    /\ listed = [r \in Reqs |-> {}]
    /\ pending = [r \in Reqs |-> {}]
    /\ flushed = [r \in Reqs |-> {}]
    /\ commitOk = [r \in Reqs |-> FALSE]
    /\ made = [r \in Reqs |-> {}]
    /\ startStore = [r \in Reqs |-> {}]
    /\ lastView = NoView
    /\ AdminSeeded

ListFlags == {0, 1}

\* the signed-in client looks at the home page, the dashboard and the list
\* (with one asset no query follows a staged row, so no flush can fail
\* before the commit)
NextDue ==
    \/ IndexStart(1)
    \/ IndexIter(1)
    \/ IndexCommit(1)
    \/ IndexCommitFail(1)
    \/ IndexRender(1)
    \/ MaintenanceDashboard(1)
    \/ \E o \in ListFlags, d \in ListFlags : MaintenanceList(1, o, d)

SpecDue == InitDue /\ [][NextDue]_vars

\* ------------------------------------- the cost views on a populated table
CostToday == ToOrdinal(2024, 7, 20)

\* the cost of the first records of a table and the cost of the others
CostPairs == {<<100, 200>>, <<400, 100>>, <<3, 2>>, <<4, 3>>, <<0, 0>>}

\* the month of the i-th record of the year: March, July, January, ...
CostMonth(i) == IF i % 3 = 1 THEN 3 ELSE IF i % 3 = 2 THEN 7 ELSE 1

\* a table with n records of the year of `day` (the first nDone completed,
\* the others scheduled; the first nFirst costing pair[1], the others
\* pair[2]) and nPrev completed records of the year before
CostTable(n, nDone, nFirst, pair, nPrev, day) ==
    {[FormRecord(1, ToOrdinal(YearOf(day), CostMonth(i), 5),
                 IF i <= nFirst THEN pair[1] ELSE pair[2], NULL,
                 IF i <= nDone THEN "completed" ELSE "scheduled")
         EXCEPT !.id = i] : i \in 1..n}
    \cup {[FormRecord(1, ToOrdinal(YearOf(day) - 1, 3, 5), 999, NULL,
                      "completed")
              EXCEPT !.id = n + k] : k \in 1..nPrev}

\* the application after asset 1 and its records were entered
InitCost ==
    /\ dialect \in Dialects
    /\ today = CostToday
    /\ assets = {AssetRow(1, "active")}
    /\ \E n \in 0..MaxCostRows, nPrev \in 0..1, pair \in CostPairs :
          \E nDone \in 0..n, nFirst \in 0..n :
              /\ records = CostTable(n, nDone, nFirst, pair, nPrev, CostToday)
              /\ recSeq = IF dialect = "postgresql" THEN n + nPrev ELSE 0
    /\ assetSeq = IF dialect = "postgresql" THEN 1 ELSE 0
    /\ session = [c \in Reqs |-> c = 1]
    /\ pc = [r \in Reqs |-> "idle"]
    /\ reqToday = [r \in Reqs |-> 0]
    /\ todo = [r \in Reqs |-> <<>>]
    /\ listed = [r \in Reqs |-> {}]
    /\ pending = [r \in Reqs |-> {}]
    /\ flushed = [r \in Reqs |-> {}]
    /\ commitOk = [r \in Reqs |-> FALSE]
    /\ made = [r \in Reqs |-> {}]
    /\ startStore = [r \in Reqs |-> {}]
    /\ lastView = NoView
    /\ AdminSeeded

ReportYears == {NoYear, 2023, 2024}

\* the signed-in client looks at the dashboard and the report
NextCost ==
    \/ MaintenanceDashboard(1)
    \/ \E y \in ReportYears : MaintenanceReport(1, y)
    \/ \E v \in ReportViews : ViewQueryError(1, v)

SpecCost == InitCost /\ [][NextCost]_vars

\* ----------------------------------------- the maintenance forms' cost field
\* sign in, register assets, submit the add and edit forms with every kind
\* of cost input (id 0 stands for the add form), view the home page
NextForms ==
    \/ Login(1)
    \/ AddAsset(1, "active")
    \/ \E a \in AssetIds, m \in FormMDates, k \in AllFormCosts,
          s \in FormStatuses : MaintenanceAdd(1, a, m, k, NULL, s)
    \/ \E i \in RecIds, a \in AssetIds, m \in FormMDates,
          k \in AllFormCosts, s \in FormStatuses :
             MaintenanceEdit(1, i, a, m, k, NULL, s)
    \/ \E i \in {0} \cup RecIds, k \in AllFormCosts :
          MaintenanceFormError(1, i, k)
    \/ IndexStep(1)

SpecForms == Init /\ [][NextForms]_vars

\* ------------------------------------------------- deletion and the trash
\* one client registers assets, enters and deletes maintenance records,
\* looks at the trash and posts restore requests
NextTrash ==
    \/ Login(1)
    \/ \E s \in AssetStatuses : AddAsset(1, s)
    \/ \E a \in AssetIds, s \in FormStatuses :
          MaintenanceAdd(1, a, 1, Field(<<"5", "0">>), NULL, s)
    \/ \E i \in RecIds : MaintenanceDelete(1, i)
    \/ Trash(1)
    \/ \E m \in AllTrashModules, i \in RecIds \cup AssetIds :
          TrashRestore(1, m, i)
    \/ \E m \in AllTrashModules, i \in RecIds \cup AssetIds :
          TrashRestoreMiss(1, m, i)
    \/ \E m \in AllTrashModules, i \in RecIds \cup AssetIds :
          TrashPermanentDelete(1, m, i)
    \/ \E i \in 1..MaxUsers, b \in BOOLEAN : EditUser(1, i, b)

SpecTrash == Init /\ [][NextTrash]_vars

\* ------------------------------------- the dashboard's periods, every month
\* the days at the edges of the month and of the year of `day`
EdgeDays(day) ==
    LET y == YearOf(day)
        m == MonthOf(day)
    IN {ToOrdinal(y, m, 1) - 1, ToOrdinal(y, m, 1),
        ToOrdinal(y, m, DaysInMonth(y, m)),
        ToOrdinal(y, m, DaysInMonth(y, m)) + 1,
        ToOrdinal(y, 1, 1) - 1, ToOrdinal(y, 1, 1),
        ToOrdinal(y, 12, 31), ToOrdinal(y, 12, 31) + 1}

\* costs of the records of a table: all positive, or the first negative
\* (the forms accept a negative cost)
EdgeCost(i, negative) == IF negative /\ i = 1 THEN 0 - 5 ELSE 40

\* a table with one completed record of asset 1 on each of the days
EdgeTable(days, negative) ==
    LET seq == SortedIds(days)
    IN {[FormRecord(1, seq[i], EdgeCost(i, negative), NULL, "completed")
            EXCEPT !.id = i] : i \in 1..Len(seq)}

\* records entered by now
MaxEdgeRows == 2

InitPeriod ==
    /\ dialect \in Dialects
    /\ today \in ClockDays
    /\ assets = {AssetRow(1, "active")}
    /\ \E days \in SUBSET EdgeDays(today), negative \in BOOLEAN :
          /\ Cardinality(days) <= MaxEdgeRows
          /\ records = EdgeTable(days, negative)
    /\ recSeq = IF dialect = "postgresql" THEN Cardinality(records) ELSE 0
    /\ assetSeq = IF dialect = "postgresql" THEN 1 ELSE 0
    /\ session = [c \in Reqs |-> c = 1]
    /\ pc = [r \in Reqs |-> "idle"]
    /\ reqToday = [r \in Reqs |-> 0]
    /\ todo = [r \in Reqs |-> <<>>]
    /\ listed = [r \in Reqs |-> {}]
    /\ pending = [r \in Reqs |-> {}]
    /\ flushed = [r \in Reqs |-> {}]
    /\ commitOk = [r \in Reqs |-> FALSE]
    /\ made = [r \in Reqs |-> {}]
    /\ startStore = [r \in Reqs |-> {}]
    /\ lastView = NoView
    /\ AdminSeeded

\* the signed-in client looks at the dashboard
NextPeriod == MaintenanceDashboard(1)

SpecPeriod == InitPeriod /\ [][NextPeriod]_vars

\* ----------------------------------------------------------- session gating
\* what the login form may carry
Usernames == {AdminUsername, "nobody"}
Passwords == {AdminPassword, "wrong"}

\* the handlers behind login_required (and the home page), as far as they
\* are modelled: they run for a client with 'user_id' in its session
GatedView(c) ==
    \/ IndexStep(c)
    \/ MaintenanceDashboard(c)
    \/ Trash(c)
    \/ AddAssetType(c)
    \/ AddAsset(c, "active")
    \/ \E i \in 1..MaxUsers, b \in BOOLEAN : EditUser(c, i, b)

\* clients sign in and out, ask for gated pages with and without a
\* session, and switch accounts on and off
NextAuth ==
    \/ \E c \in Reqs, n \in Usernames, p \in Passwords : LoginPost(c, n, p)
    \/ \E c \in Reqs : Logout(c)
    \/ \E c \in Reqs : IndexRedirect(c)
    \/ \E c \in Reqs : LoginRequiredRedirect(c)
    \/ \E c \in Reqs : GatedView(c)

SpecAuth == InitFresh /\ [][NextAuth]_vars

\* ------------------------------------------------- asset types and assets
\* asset types are entered and deleted while assets are added, moved to
\* another type and deleted, starting from the database as run.py leaves it
NextTypes ==
    \/ \E c \in Reqs : Login(c)
    \/ \E c \in Reqs : AddAssetType(c)
    \/ \E c \in Reqs, i \in TypeIds : DeleteAssetType(c, i)
    \/ \E c \in Reqs, s \in AssetStatuses : AddAsset(c, s)
    \/ \E c \in Reqs, i \in AssetIds, s \in AssetStatuses : EditAsset(c, i, s)
    \/ \E c \in Reqs, i \in AssetIds : DeleteAsset(c, i)
    \/ \E c \in Reqs, i \in TypeIds : TrashPermanentDelete(c, "asset_type", i)

SpecTypes == InitFresh /\ [][NextTypes]_vars

\* ------------------------------------------------------ first-run bootstrap
\* the tokens a request may carry: none, the configured one, another one
Tokens == {"", "s3cret", "wrong"}

\* Role tables and User tables the application may hold when /dev/bootstrap
\* is called: empty (the application served without run.py), bootstrapped,
\* or edited since (roles without an admin role; the admin account renamed,
\* keeping its email; another account only)
RoleTables == {{}, BaseRoles, {"user"}}

UserTables ==
    {{},
     {UserRow(1, AdminUsername, AdminEmail, AdminPassword, TRUE)},
     {UserRow(1, "root", AdminEmail, AdminPassword, TRUE)},
     {UserRow(1, "bob", "bob@example.com", "pw", TRUE)}}

InitBoot ==
    /\ dialect \in Dialects
    /\ today = 1
    /\ assets = {}
    /\ records = {}
    /\ assetSeq = 0
    /\ recSeq = 0
    /\ session = [c \in Reqs |-> FALSE]
    /\ pc = [r \in Reqs |-> "idle"]
    /\ reqToday = [r \in Reqs |-> 0]
    /\ todo = [r \in Reqs |-> <<>>]
    /\ listed = [r \in Reqs |-> {}]
    /\ pending = [r \in Reqs |-> {}]
    /\ flushed = [r \in Reqs |-> {}]
    /\ commitOk = [r \in Reqs |-> FALSE]
    /\ made = [r \in Reqs |-> {}]
    /\ startStore = [r \in Reqs |-> {}]
    /\ lastView = NoView
    /\ roles \in RoleTables
    /\ users \in UserTables
    /\ userSeq = IF dialect = "postgresql" THEN Cardinality(users) ELSE 0
    /\ assetTypes = {}
    /\ typeSeq = 0
    /\ initToken \in {"", "s3cret"}

NextBoot == \E t \in Tokens : DevBootstrap(t)

SpecBoot == InitBoot /\ [][NextBoot]_vars

\* ================================================================ claims
\* an asset has a schedule entry that is due on or after `day`
HasFutureSchedule(asset_id, recs, day) ==
    \E x \in recs : /\ x.asset_id = asset_id
                    /\ x.next_due_date # NULL
                    /\ x.next_due_date >= day

\* rows of asset `a` stored now that were not stored in `before`
AddedSince(before, a) == {x \in records \ before : x.asset_id = a}

\* the request of slot r has just committed a view that directly follows a
\* committed view of the same day
SecondViewDone(r) ==
    /\ pc[r] = "render"
    /\ commitOk[r]
    /\ lastView.kind = "index"
    /\ lastView.day = reqToday[r]

\* C1: two consecutive home-page views on the same day, both committing and
\* with nothing in between, create at most one record per asset in total,
\* and exactly one for an asset that had no record.
C1_Idempotent ==
    \A r \in Reqs :
        SecondViewDone(r) =>
            \A a \in listed[r] :
                /\ Cardinality(AddedSince(lastView.before, a)) <= 1
                /\ RowsOf(lastView.before, a) = {}
                       => Cardinality(AddedSince(lastView.before, a)) = 1

\* the latest next_due_date of a set of rows: the greatest one that is set
LatestDue(rows) ==
    LET dated == {x.next_due_date : x \in {y \in rows : y.next_due_date # NULL}}
    IN IF dated = {} THEN NULL ELSE SetMax(dated)

\* C2: a loop iteration stages a record for the asset if and only if the
\* asset's latest next_due_date is absent or strictly before today (none
\* when it equals today or is later; always for an asset without records).
C2_StrictThreshold ==
    [][\A r \in Reqs :
          IndexIter(r) =>
              LET a      == Head(todo[r])
                  latest == LatestDue(RowsOf(records, a))
              IN (pending'[r] # {}) <=>
                     (latest = NULL \/ latest < reqToday[r])]_vars

\* C3: right after a home-page view whose commit succeeded, every active
\* asset has a record whose next_due_date is set and on or after today.
C3_PostCondition ==
    \A r \in Reqs :
        (pc[r] = "render" /\ commitOk[r]) =>
            \A a \in assets :
                a.status = "active"
                    => HasFutureSchedule(a.id, records, reqToday[r])

\* C3 witness: a committed view that had to create the schedule of an
\* active asset
C3_Witness ==
    \E r \in Reqs :
        /\ pc[r] = "render" /\ commitOk[r]
        /\ \E a \in assets :
              /\ a.status = "active"
              /\ ~HasFutureSchedule(a.id, startStore[r], reqToday[r])
              /\ RowsOf(startStore[r], a.id) # {}

\* C4: nothing a view has staged is stored before its single commit; after
\* the commit either every staged record is stored (commit succeeded) or
\* none is (commit failed).
C4_BatchAtomic ==
    \A r \in Reqs :
        /\ pc[r] = "loop" => made[r] \cap records = {}
        /\ pc[r] = "render" =>
              IF commitOk[r] THEN made[r] \subseteq records
                             ELSE made[r] \cap records = {}

\* C4 witness: the commit of a two-record batch has failed
C4_Witness ==
    \E r \in Reqs :
        /\ pc[r] = "render" /\ ~commitOk[r]
        /\ Cardinality(made[r]) >= 2

\* C5: when the insert of the record staged for one asset fails, every
\* other listed asset still ends the view with its schedule stored.
C5_FailureIsolation ==
    [][\A r \in Reqs :
          (pending[r] # {} /\ (IndexFlushFail(r) \/ IndexCommitFail(r))) =>
              \A a \in listed[r] \ {x.asset_id : x \in pending[r]} :
                  HasFutureSchedule(a, records', reqToday[r])]_vars

\* C6: a view that leaves the loop, also because a flush or the commit
\* failed, goes on to compute the due list and render the page.
C6_AlwaysRenders ==
    [][\A r \in Reqs :
          (pc[r] = "loop" /\ pc'[r] # "loop") => pc'[r] = "render"]_vars

\* two generated records of one asset with the same dates
DuplicateSchedules(x, y) ==
    /\ x # y
    /\ x.asset_id = y.asset_id
    /\ x.person_in_charge = "System" /\ y.person_in_charge = "System"
    /\ x.maintenance_date = y.maintenance_date
    /\ x.next_due_date = y.next_due_date

\* C7: no lock or constraint stops the race: a request holding a staged
\* record for an asset can still commit it when another request has
\* meanwhile stored a generated record with the same dates for that asset.
C7_RaceNotPrevented ==
    \A r \in Reqs :
        (/\ pc[r] = "loop" /\ LoopDone(todo[r])
         /\ \E x \in pending[r] \cup flushed[r], y \in records :
               /\ x.asset_id = y.asset_id
               /\ y.person_in_charge = "System"
               /\ x.maintenance_date = y.maintenance_date
               /\ x.next_due_date = y.next_due_date
         /\ pending[r] # {} =>
               /\ CanWrite(r)
               /\ \A x \in pending[r] : x.asset_id \in AssetIdsOf(assets)
               /\ NewRecId(records \cup flushed[r], recSeq, dialect) <= MaxId)
        => ENABLED IndexCommit(r)

\* C7 witness: the asset has two generated records with the same dates
C7_Witness ==
    \E x \in records, y \in records : DuplicateSchedules(x, y)

\* the step in which the request of slot r rolls back
RollsBack(r) ==
    /\ pc[r] = "loop"
    /\ \/ pc'[r] = "idle"
       \/ pc'[r] = "render" /\ ~commitOk'[r]

\* C8: a rollback discards the rows staged by that request only; the stored
\* rows and the rows staged by every other request stay as they are.
C8_RollbackIsolation ==
    [][\A r \in Reqs :
          RollsBack(r) =>
              /\ records' = records
              /\ pending'[r] = {} /\ flushed'[r] = {}
              /\ \A q \in Reqs \ {r} :
                    /\ pending'[q] = pending[q]
                    /\ flushed'[q] = flushed[q]]_vars

\* C8 witness: a request's commit has failed while another request is in
\* its loop with rows staged
C8_Witness ==
    \E r \in Reqs, q \in Reqs :
        /\ r # q
        /\ pc[r] = "render" /\ ~commitOk[r] /\ made[r] # {}
        /\ pc[q] = "loop" /\ flushed[q] \cup pending[q] # {}

\* C9: every stored maintenance record references an existing asset.
C9_Referential ==
    \A x \in records : x.asset_id \in AssetIdsOf(assets)

\* C10 (as claimed): the home page and the maintenance dashboard both run
\* the generator before classifying, so both leave every asset scheduled.
C10_BothTriggers ==
    [][/\ \A r \in Reqs :
             (pc[r] = "loop" /\ pc'[r] = "render" /\ commitOk'[r]) =>
                 \A a \in listed[r] :
                     HasFutureSchedule(a, records', reqToday[r])
       /\ (\E c \in Reqs : MaintenanceDashboard(c)) =>
             \A a \in AssetIdsOf(assets') :
                 HasFutureSchedule(a, records', today')]_vars

\* C10 (amended): only the home page runs the generator: it classifies
\* after the loop has visited every listed asset and the commit was tried;
\* the maintenance dashboard writes nothing and classifies the records as
\* they are stored.
C10_OnlyHomePage ==
    [][/\ \A r \in Reqs :
             (pc[r] # "render" /\ pc'[r] = "render") =>
                 pc[r] = "loop" /\ todo[r] = <<>>
       /\ (\E c \in Reqs : MaintenanceDashboard(c)) =>
             records' = records]_vars

\* C10 witness: the dashboard has rendered while an asset has no schedule
\* that is due today or later
C10_Witness ==
    /\ lastView.kind = "dashboard"
    /\ \E a \in assets : ~HasFutureSchedule(a.id, records, today)

\* the field values of a record generated for asset `a` on day `day`
IsGenerated(x, a, day) ==
    /\ x.asset_id = a
    /\ x.maintenance_date = day
    /\ x.type = "maintenance"
    /\ x.person_in_charge = "System"
    /\ x.vendor = "None"
    /\ x.cost = 0
    /\ x.next_due_date = day + 365
    /\ x.status = "scheduled"
    /\ x.deleted_at = NULL

\* C11: the record an iteration stages for its asset, and every record the
\* view's commit stores, has the generator's field values: the asset's id,
\* maintenance_date today, type maintenance, person System, no vendor,
\* cost 0, next_due_date today + 365, status scheduled, not deleted.
C11_GeneratedFields ==
    [][\A r \in Reqs :
          /\ IndexIter(r) =>
                \A x \in pending'[r] :
                    IsGenerated(x, Head(todo[r]), reqToday[r])
          /\ IndexCommit(r) =>
                \A x \in records' \ records :
                    \E a \in listed[r] : IsGenerated(x, a, reqToday[r])]_vars

\* C11 witness: a view has committed a record it generated
C11_Witness ==
    \E r \in Reqs :
        /\ pc[r] = "render" /\ commitOk[r]
        /\ \E x \in made[r] : x \in records /\ x.person_in_charge = "System"

\* the record a committed view of slot r generated for asset a
GeneratedFor(r, a) == {x \in made[r] : x.asset_id = a /\ x \in records}

\* a view of 2024-01-10 has committed, asset a was listed without records
ViewOfJan10(r, a) ==
    /\ pc[r] = "render" /\ commitOk[r]
    /\ reqToday[r] = ToOrdinal(2024, 1, 10)
    /\ a \in listed[r]
    /\ RowsOf(startStore[r], a) = {}

\* C12 (as claimed): with today = 2024-01-10 and an asset with no records
\* the generated record is due on 2025-01-10, which is today + 365 days.
C12_DueJan10 ==
    \A r \in Reqs, a \in AssetIds :
        ViewOfJan10(r, a) =>
            /\ GeneratedFor(r, a) # {}
            /\ \A x \in GeneratedFor(r, a) :
                  /\ DateOf(x.next_due_date) = <<2025, 1, 10>>
                  /\ x.next_due_date = reqToday[r] + 365

\* C12 (amended): with today = 2024-01-10 and an asset with no records the
\* generated record is due on 2025-01-09, which is today + 365 days (2024
\* is a leap year, so the same calendar day a year later is 366 days away).
C12_DueJan09 ==
    \A r \in Reqs, a \in AssetIds :
        ViewOfJan10(r, a) =>
            /\ GeneratedFor(r, a) # {}
            /\ \A x \in GeneratedFor(r, a) :
                  /\ DateOf(x.next_due_date) = <<2025, 1, 9>>
                  /\ x.next_due_date = reqToday[r] + 365
                  /\ ToOrdinal(2025, 1, 10) = reqToday[r] + 366

\* C12 witness: the view of 2024-01-10 has generated the record
C12_Witness ==
    \E r \in Reqs, a \in AssetIds :
        ViewOfJan10(r, a) /\ GeneratedFor(r, a) # {}

\* the three classes of the due window, as the claim defines them
ClassOverdue(recs, day) ==
    {x \in recs : x.next_due_date # NULL /\ x.next_due_date < day}

ClassDueSoon(recs, day) ==
    {x \in recs : x.next_due_date # NULL /\ day <= x.next_due_date
                  /\ x.next_due_date <= day + 30}

ClassLater(recs, day) ==
    {x \in recs : x.next_due_date # NULL /\ x.next_due_date > day + 30}

\* the number of classes record x is in
ClassesOf(x, recs, day) ==
    Cardinality({k \in {"overdue", "due_soon", "later"} :
        \/ k = "overdue" /\ x \in ClassOverdue(recs, day)
        \/ k = "due_soon" /\ x \in ClassDueSoon(recs, day)
        \/ k = "later" /\ x \in ClassLater(recs, day)})

\* C13: over the stored records a dashboard or list view has read, every
\* record with a due date is in exactly one of overdue (due < today),
\* due-soon (today <= due <= today + 30) and later (due > today + 30), a
\* record without due date in none; the dashboard's overdue and due_30
\* counts are the sizes of the first two classes, and the list's overdue
\* and due_30 filters select exactly their members.
C13_DueClasses ==
    LET recs == lastView.before
        day  == lastView.day
        page == lastView.page
    IN /\ lastView.kind \in {"dashboard", "list"} =>
             \A x \in recs :
                 ClassesOf(x, recs, day) =
                     IF x.next_due_date = NULL THEN 0 ELSE 1
       /\ lastView.kind = "dashboard" =>
             /\ page.overdue = Cardinality(ClassOverdue(recs, day))
             /\ page.due_30 = Cardinality(ClassDueSoon(recs, day))
       /\ (lastView.kind = "list" /\ page.overdue = 1 /\ page.due_30 = 0) =>
             page.matches = ClassOverdue(recs, day)
       /\ (lastView.kind = "list" /\ page.overdue = 0 /\ page.due_30 = 1) =>
             page.matches = ClassDueSoon(recs, day)

\* C13 witness: the dashboard has counted a table that holds records due
\* yesterday, today, on day 30, on day 31 and without due date
C13_Witness ==
    /\ lastView.kind = "dashboard"
    /\ \A d \in {lastView.day - 1, lastView.day, lastView.day + 30,
                  lastView.day + 31, NULL} :
          \E x \in lastView.before : x.next_due_date = d
    /\ lastView.page.overdue >= 1 /\ lastView.page.due_30 >= 2

\* the records that qualify for the due list: due date set, not after day 30
Qualifying(recs, day) ==
    {x \in recs : x.next_due_date # NULL /\ x.next_due_date <= day + 30}

\* q lists records of S without repetition, by ascending next_due_date
AscendingOver(q, S) ==
    /\ \A i \in 1..Len(q) : q[i] \in S
    /\ \A i \in 1..Len(q), j \in 1..Len(q) :
          i < j => /\ q[i] # q[j]
                   /\ q[i].next_due_date <= q[j].next_due_date

\* q is the due list over recs: the (at most) 10 earliest-due qualifying
\* records in ascending order
IsDueList(q, recs, day) ==
    LET qual == Qualifying(recs, day)
        n    == Cardinality(qual)
    IN /\ AscendingOver(q, qual)
       /\ Len(q) = IF n < 10 THEN n ELSE 10
       /\ \A x \in qual \ {q[i] : i \in 1..Len(q)} :
             \A i \in 1..Len(q) : q[i].next_due_date <= x.next_due_date

\* C14 (as claimed): the due list of the home page and the upcoming panel
\* of the dashboard are each the due list over the stored records.
C14_BothCapped ==
    [][/\ \A r \in Reqs :
             IndexRender(r) =>
                 IsDueList(lastView'.page.due, records, reqToday[r])
       /\ \A c \in Reqs :
             MaintenanceDashboard(c) =>
                 IsDueList(lastView'.page.upcoming, records, today)]_vars

\* C14 (amended): the due list of the home page holds the records with a
\* due date <= today + 30, ascending, cut to the 10 earliest; the upcoming
\* panel of the dashboard holds every record with today <= due date <=
\* today + 30, ascending, and is not cut.
C14_HomeCapped ==
    [][/\ \A r \in Reqs :
             IndexRender(r) =>
                 IsDueList(lastView'.page.due, records, reqToday[r])
       /\ \A c \in Reqs :
             MaintenanceDashboard(c) =>
                 LET q == lastView'.page.upcoming
                 IN /\ AscendingOver(q, ClassDueSoon(records, today))
                    /\ Len(q) = Cardinality(ClassDueSoon(records, today))]_vars

\* C14 witness: the home page has listed 10 of more than 10 qualifying
\* records
C14_Witness ==
    /\ lastView.kind \in {"index", "index_rolledback"}
    /\ Len(lastView.page.due) = 10
    /\ Cardinality(Qualifying(records, lastView.day)) > 10

\* the records of batch q that are due before `day`
BatchOverdue(q, day) == {i \in 1..Len(q) : q[i].next_due_date < day}

\* the records of batch q that are due on `day` or later
BatchDueSoon(q, day) == {i \in 1..Len(q) : q[i].next_due_date >= day}

\* C15: the home page's overdue and due_soon counts partition its capped
\* due list (they add up to its length, at most 10); its overdue count
\* never exceeds the dashboard's overdue count over the same stored
\* records and is strictly smaller when more than 10 records are overdue.
C15_Partition ==
    [][\A r \in Reqs :
          IndexRender(r) =>
              LET page   == lastView'.page
                  day    == reqToday[r]
                  global == DashboardPage(records, day).overdue
              IN /\ page.overdue = Cardinality(BatchOverdue(page.due, day))
                 /\ page.due_soon = Cardinality(BatchDueSoon(page.due, day))
                 /\ page.overdue + page.due_soon = Len(page.due)
                 /\ Len(page.due) <= 10
                 /\ page.overdue <= global
                 /\ Cardinality(ClassOverdue(records, day)) > 10
                       => page.overdue < global]_vars

\* C15 witness: the home page has counted 10 overdue records where more
\* than 10 are stored
C15_Witness ==
    /\ lastView.kind \in {"index", "index_rolledback"}
    /\ lastView.page.overdue = 10
    /\ Cardinality(ClassOverdue(records, lastView.day)) > 10

\* C16: a home-page view flashes exactly one of: a warning with the
\* overdue count when its batch has an overdue record; else an info notice
\* with the due-soon count when the batch has a due-soon record; else
\* nothing.  A warning and an info notice never come together.
C16_OneNotice ==
    [][\A r \in Reqs :
          IndexRender(r) =>
              LET page == lastView'.page
                  over == Cardinality(BatchOverdue(page.due, reqToday[r]))
                  soon == Cardinality(BatchDueSoon(page.due, reqToday[r]))
                  F    == page.flashes
              IN /\ Cardinality(F) <= 1
                 /\ over >= 1 =>
                       F = {[category |-> "warning", count |-> over]}
                 /\ (over = 0 /\ soon >= 1) =>
                       F = {[category |-> "info", count |-> soon]}
                 /\ (over = 0 /\ soon = 0) => F = {}
                 /\ ~(\E w \in F, i \in F :
                         w.category = "warning" /\ i.category = "info")]_vars

\* C16 witness: the home page has flashed the info notice for a batch of
\* due-soon records only
C16_Witness ==
    /\ lastView.kind \in {"index", "index_rolledback"}
    /\ lastView.page.overdue = 0
    /\ lastView.page.due_soon >= 2
    /\ \E m \in lastView.page.flashes : m.category = "info"

\* the records of `recs` dated in month m of year y
InMonth(recs, y, m) ==
    {x \in recs : YearOf(x.maintenance_date) = y
                  /\ MonthOf(x.maintenance_date) = m}

\* C17: the report of year Y lists, by ascending month, one entry for each
\* month of Y that has a record, with the sum of the cost of that month's
\* records; total_year is the sum of the listed totals and the sum of the
\* cost of all records of Y.  Records only in March (100) and July (200)
\* give <<(3, 100), (7, 200)>> and total 300.
C17_SparseReport ==
    lastView.kind = "report" =>
        LET recs == lastView.before
            Y    == lastView.page.year
            data == lastView.page.data
            inY  == UNION {InMonth(recs, Y, m) : m \in 1..12}
        IN /\ \A i \in 1..Len(data), j \in 1..Len(data) :
                 i < j => data[i].month < data[j].month
           /\ {data[i].month : i \in 1..Len(data)}
                  = {m \in 1..12 : InMonth(recs, Y, m) # {}}
           /\ \A i \in 1..Len(data) :
                 data[i].total = SumCost(InMonth(recs, Y, data[i].month))
           /\ lastView.page.total_year = SumTotals(data)
           /\ lastView.page.total_year = SumCost(inY)
           /\ (/\ \A m \in 1..12 : InMonth(recs, Y, m) # {} <=> m \in {3, 7}
               /\ SumCost(InMonth(recs, Y, 3)) = 100
               /\ SumCost(InMonth(recs, Y, 7)) = 200)
                 => /\ data = <<[month |-> 3, total |-> 100],
                                 [month |-> 7, total |-> 200]>>
                    /\ lastView.page.total_year = 300

\* C17 witness: the report of a year with 100 in March and 200 in July
C17_Witness ==
    /\ lastView.kind = "report"
    /\ lastView.page.data = <<[month |-> 3, total |-> 100],
                               [month |-> 7, total |-> 200]>>
    /\ lastView.page.total_year = 300
    /\ \E x \in lastView.before :
          YearOf(x.maintenance_date) # lastView.page.year

\* |a - b|
Dist(a, b) == IF a >= b THEN a - b ELSE b - a

\* C18: on the dashboard completion_rate is completed / total * 100 to
\* the nearest tenth (counted in tenths) and avg_cost_per_record is
\* total_cost / total to the nearest integer, both 0 when the year has no
\* record; 3 of 7 give 42.9 and 1000 over 7 gives 143; the rate lies
\* within 0..100.
C18_KpiRounding ==
    lastView.kind = "dashboard" =>
        LET inY   == {x \in lastView.before :
                         YearOf(x.maintenance_date) = YearOf(lastView.day)}
            total == Cardinality(inY)
            done  == Cardinality({x \in inY : x.status = "completed"})
            cost  == SumCost(inY)
            rate  == lastView.page.completion_rate
            avg   == lastView.page.avg_cost_per_record
        IN /\ total = 0 => rate = 0 /\ avg = 0
           /\ total > 0 =>
                 /\ 2 * Dist(rate * total, done * 1000) <= total
                 /\ 2 * Dist(avg * total, cost) <= total
           /\ 0 <= rate /\ rate <= 1000
           /\ (total = 7 /\ done = 3) => rate = 429
           /\ (total = 7 /\ cost = 1000) => avg = 143

\* C18 witness: the dashboard of a year with 7 records, 3 of them
\* completed, costing 1000 in all
C18_Witness ==
    /\ lastView.kind = "dashboard"
    /\ lastView.page.total_records_year = 7
    /\ lastView.page.completed_year = 3
    /\ lastView.page.total_cost_year = 1000
    /\ lastView.page.completion_rate = 429
    /\ lastView.page.avg_cost_per_record = 143

\* the cost inputs the claim says are taken as zero
TakenAsZero(k) == ~k.given \/ k.text = <<>> \/ ~IsNumeric(k.text)

\* C19: a maintenance add or edit submitted with the cost field absent,
\* empty or non-numeric succeeds and the record is stored with cost 0.
C19_CostDefaultsToZero ==
    [][\A a \in AssetIds, m \in FormMDates, k \in AllFormCosts,
         s \in FormStatuses :
          TakenAsZero(k) =>
              /\ (MaintenanceAdd(1, a, m, k, NULL, s)
                      \/ MaintenanceFormError(1, 0, k))
                    => \E x \in records' \ records : x.cost = 0
              /\ \A i \in RecIds :
                    (MaintenanceEdit(1, i, a, m, k, NULL, s)
                        \/ MaintenanceFormError(1, i, k))
                      => \E x \in records' : x.id = i /\ x.cost = 0]_vars

\* C20: every stored maintenance record has a cost >= 0.
C20_CostNonNegative ==
    \A x \in records : x.cost >= 0

\* C21: a request for the maintenance dashboard or the monthly report whose
\* query fails is still answered with a rendered page (figures zero or
\* empty), never with a server error.
C21_ReportingCrashFree ==
    \A v \in ReportViews :
        ~(lastView.kind = "error500" /\ lastView.page = [none |-> FALSE,
                                                        view |-> v])

\* a restore request for maintenance record i is answered
RestoreRequest(i) ==
    TrashRestore(1, "maintenance", i) \/ TrashRestoreMiss(1, "maintenance", i)

C23_BootstrapIdempotent ==
    [][\A t \in Tokens :
          DevBootstrap(t) =>
              LET ans == lastView'.page
              IN /\ (lastView.kind = "bootstrap" /\ lastView.page.nth >= 1)
                       => UNCHANGED <<roles, users>>
                 /\ (roles = {} /\ users = {} /\ ans.status # 401)
                       => /\ roles' = BaseRoles
                          /\ Cardinality(users') = 1
                          /\ \A u \in users' :
                                 /\ u.username = AdminUsername
                                 /\ u.is_active
                          /\ ans.status = 200
                          /\ ans.created_roles = 3
                          /\ ans.created_users = 1
                 /\ (lastView.kind = "bootstrap" /\ lastView.page.fromEmpty
                        /\ ans.status # 401)
                       => /\ ans.status = 200
                          /\ ans.created_roles = 0
                          /\ ans.created_users = 0
                 /\ (initToken # "" /\ t # initToken)
                       => /\ ans.status = 401
                          /\ UNCHANGED <<roles, users>>]_vars

\* the third call on a database that was empty before the first
C23_Witness ==
    /\ lastView.kind = "bootstrap"
    /\ lastView.page.fromEmpty
    /\ lastView.page.nth = 3
    /\ lastView.page.created_users = 0
    /\ roles = BaseRoles

\* C24: a loop iteration bases its decision on the maximum non-null
\* next_due_date among the asset's records: a record without due date is
\* not the one selected when the asset has a dated record, and an asset
\* with a record due today or later gets no new record even if it also has
\* records without a due date.
C24_LatestSelected ==
    [][\A r \in Reqs :
          IndexIter(r) =>
              LET rows == RowsOf(records, Head(todo[r]))
              IN /\ NextDueFrom(rows, dialect) = LatestDue(rows)
                 /\ (\E x \in rows : /\ x.next_due_date # NULL
                                      /\ x.next_due_date >= reqToday[r])
                       => pending'[r] = {}]_vars

\* the records dated in the calendar month / the calendar year of `day`
InMonthOf(day) ==
    {x \in records : /\ YearOf(x.maintenance_date) = YearOf(day)
                     /\ MonthOf(x.maintenance_date) = MonthOf(day)}

InYearOf(day) ==
    {x \in records : YearOf(x.maintenance_date) = YearOf(day)}

\* C25: the dashboard's month figures cover exactly the records dated from
\* the first to the last day of the current month, in every month (December
\* included), and its year figures those dated from 1 January to 31
\* December; so the month's record count is at most the year's, and so is
\* the month's cost when no cost is negative.
C25_PeriodBounds ==
    lastView.kind = "dashboard" =>
        LET page == lastView.page
            day  == lastView.day
        IN /\ page.total_records_month = Cardinality(InMonthOf(day))
           /\ page.total_cost_month = SumCost(InMonthOf(day))
           /\ page.total_records_year = Cardinality(InYearOf(day))
           /\ page.total_cost_year = SumCost(InYearOf(day))
           /\ page.total_records_month <= page.total_records_year
           /\ (\A x \in records : x.cost >= 0)
                 => page.total_cost_month <= page.total_cost_year

\* the dashboard of a December day with a record on 31 December and one on
\* 1 January of the next year
C25_Witness ==
    /\ lastView.kind = "dashboard"
    /\ MonthOf(lastView.day) = 12
    /\ lastView.page.total_records_month = 1
    /\ \E x \in records : DayOf(x.maintenance_date) = 31
    /\ \E x \in records : YearOf(x.maintenance_date) = YearOf(lastView.day) + 1

\* C26: a home-page view never modifies or deletes a stored maintenance
\* record (an overdue record is still stored, and overdue, after the view)
\* and never modifies an asset; what it writes is at most one new record
\* per asset, and a view whose commit succeeds has visited every stored
\* asset whatever its status: each asset that had no record has one after.
C26_GeneratorFrame ==
    [][IndexStep(1) =>
          /\ UNCHANGED <<assets, assetTypes, users, roles>>
          /\ records \subseteq records'
          /\ IndexRender(1) =>
                LET before == startStore[1]
                    added  == records' \ before
                IN /\ before \subseteq records'
                   /\ \A x \in before :
                          (x.next_due_date # NULL
                              /\ IsOverdue(x, reqToday[1])) => x \in records'
                   /\ \A a \in AssetIds :
                          Cardinality({x \in added : x.asset_id = a}) <= 1
                   /\ commitOk[1] =>
                          \A a \in assets :
                              RowsOf(before, a.id) = {}
                                 => \E x \in added : x.asset_id = a.id]_vars

\* a view has generated the record of a disposed asset and left an overdue
\* record as it was
C26_Witness ==
    /\ lastView.kind = "index"
    /\ \E a \in assets :
          /\ a.status = "disposed"
          /\ \E x \in records \ lastView.before :
                 x.asset_id = a.id /\ x.person_in_charge = "System"
    /\ \E x \in lastView.before :
          /\ x.next_due_date # NULL
          /\ IsOverdue(x, lastView.day)
          /\ x \in records

\* the stored records that are overdue on `day`
StoredOverdue(recs, day) ==
    {x \in recs : x.next_due_date # NULL /\ x.next_due_date < day}

\* C27: the overdue count of the home page is min(10, number of stored
\* records with next_due_date < today), and the informational due-soon
\* notice is flashed only when no stored record is overdue.
C27_OverdueFirst ==
    [][IndexRender(1) =>
          LET page == lastView'.page
              n    == Cardinality(StoredOverdue(records', reqToday[1]))
          IN /\ page.overdue = IF n < 10 THEN n ELSE 10
             /\ (\E f \in page.flashes : f.category = "info") => n = 0]_vars

\* a view of a table with more than 10 overdue records and records due
\* soon: 10 overdue counted, none due soon, the warning flashed
C27_Witness ==
    /\ lastView.kind \in {"index", "index_rolledback"}
    /\ Cardinality(StoredOverdue(records, lastView.day)) > 10
    /\ \E x \in records : x.next_due_date >= lastView.day
                           /\ x.next_due_date <= lastView.day + DueWindow
    /\ lastView.page.overdue = 10
    /\ lastView.page.due_soon = 0
    /\ \E f \in lastView.page.flashes : f.category = "warning"

\* the tables of the application
tables == <<assets, records, assetTypes, users, roles>>

\* C28: 'user_id' enters a client's session only by a login POST that
\* matched a stored user who is active, with that user's password, and
\* leaves it only by logout; a failed login leaves every session as it is.
\* A client without 'user_id' that asks for the home page or a route behind
\* login_required is redirected: no table is written and no page is built
\* from the tables.
C28_SessionGating ==
    [][/\ \A c \in Reqs :
          /\ (~session[c] /\ session'[c]) =>
                \E n \in Usernames, p \in Passwords :
                    /\ LoginPost(c, n, p)
                    /\ \E u \in users :
                           u.username = n /\ u.password = p /\ u.is_active
          /\ (session[c] /\ ~session'[c]) => Logout(c)
          /\ \A n \in Usernames, p \in Passwords :
                (LoginPost(c, n, p) /\ ~lastView'.page.ok)
                    => UNCHANGED session
          /\ (~session[c] /\ (IndexRedirect(c) \/ LoginRequiredRedirect(c)))
                => /\ UNCHANGED tables
                   /\ UNCHANGED session
                   /\ lastView'.page \in {NoPage, [none |-> TRUE, client |-> c]}
          /\ ~session[c] => pc[c] = "idle" /\ pc'[c] = "idle"
       /\ (\A c \in Reqs : ~session[c])
             => /\ UNCHANGED tables
                /\ lastView'.kind \in {"login", "redirect_login", "other"}
      ]_vars

\* the admin account was switched off and a login with its password failed
C28_Witness ==
    /\ lastView.kind = "login"
    /\ ~lastView.page.ok
    /\ \E u \in users :
          u.username = AdminUsername /\ ~u.is_active
    /\ \E c \in Reqs : session[c]
    /\ \E c \in Reqs : ~session[c]

\* C29: every stored asset's asset_type_id is the id of a stored asset
\* type, whatever asset types and assets were added, edited and deleted
C29_TypeInUseKept ==
    \A a \in assets : \E y \in assetTypes : y.id = a.asset_type_id

\* no row of the four tables carries a deletion mark
NoRowSoftDeleted ==
    /\ SoftDeleted(assets) = {}
    /\ SoftDeleted(assetTypes) = {}
    /\ SoftDeleted(users) = {}
    /\ SoftDeleted(records) = {}

\* C30: no handler sets deleted_at, so after any sequence of requests no
\* asset, asset type, user or maintenance record carries a deletion mark,
\* the trash listing is empty, and a trash_restore leaves every row as it
\* was (rows only ever disappear by hard delete)
C30_NoSoftDelete ==
    [][/\ NoRowSoftDeleted'
       /\ lastView'.kind = "trash" =>
             lastView'.page = [none |-> FALSE, assets |-> {},
                               asset_types |-> {}, users |-> {},
                               maintenance_records |-> {}]
       /\ (\E m \in AllTrashModules, i \in RecIds \cup AssetIds :
              TrashRestore(1, m, i) \/ TrashRestoreMiss(1, m, i))
             => UNCHANGED tables
      ]_vars

====
